---- MODULE Spec2Model ----
(***************************************************************************)
(* Interactive music-tutor sessions of the repository: the topic gate      *)
(* (is_music_related), the REPL loops of tinyllama_runner, qwen_music_tutor,*)
(* openai_music_tutor and music_instructor_inference, and the history they  *)
(* keep.  A text is a sequence of one-character strings, so that lower(),   *)
(* strip(), startswith(), substring tests and the regular expressions are   *)
(* computed on characters as the Python code computes them.                 *)
(***************************************************************************)
EXTENDS Integers, Sequences, FiniteSets, TLC

VARIABLES
    tutor,                  \* which script runs the session
    music_only,             \* self.music_only / not allow_all_topics
    context_limit,          \* self.context_limit / max_history_length
    client_ready,           \* the chat client or local model is available
    SLAKH_AVAILABLE,        \* module flags set by the guarded imports
    THEORY_AVAILABLE,
    PERFORMANCE_AVAILABLE,
    conversation_history,   \* list of {"role", "content"} turns
    single_question_mode,
    running,                \* the while-loop has not reached break
    user_input,             \* the stripped line of the last iteration
    op,                     \* branch the last iteration took
    current_messages,       \* list handed to chat_response / prompt list
    sent,                   \* message list the chat service or model received
    response_content,       \* text the loop accumulated for the reply
    error_text,             \* error string yielded or returned, <<>> if none
    raised,                 \* an exception left the function that was called
    classifier_calls,       \* calls of is_music_related in the last iteration
    api_calls,              \* calls of the chat service / model in the last iteration
    called,                 \* knowledge function called directly, "" if none
    argument,               \* the argument of that call
    returned,               \* the value it returned
    consulted,              \* detectors, keyword sets and pattern lists it used
    context_additions       \* snippet list enrich_context_with_knowledge built

vars == <<tutor, music_only, context_limit, client_ready, SLAKH_AVAILABLE,
          THEORY_AVAILABLE, PERFORMANCE_AVAILABLE, conversation_history,
          single_question_mode, running, user_input, op, current_messages,
          sent, response_content, error_text, raised, classifier_calls, api_calls,
          called, argument, returned, consulted, context_additions>>

config == <<tutor, music_only, context_limit, client_ready, SLAKH_AVAILABLE,
            THEORY_AVAILABLE, PERFORMANCE_AVAILABLE>>

\* the record of a direct call of a knowledge function
call == <<called, argument, returned, consulted, context_additions>>

\* the variables of the interactive session
session == <<conversation_history, single_question_mode, running, user_input, op,
             current_messages, sent, response_content, error_text,
             classifier_calls, api_calls>>

(***************************************************************************)
(* Bounds of the model.                                                    *)
(***************************************************************************)
\* largest context_limit the session is configured with
MaxLimit == 2
\* a question is typed while the history holds at most MaxHistory turns
MaxHistory == 2

(***************************************************************************)
(* Texts and the str methods the code uses.                                *)
(***************************************************************************)
UpperLetters == <<"A","B","C","D","E","F","G","H","I","J","K","L","M",
                  "N","O","P","Q","R","S","T","U","V","W","X","Y","Z">>
LowerLetters == <<"a","b","c","d","e","f","g","h","i","j","k","l","m",
                  "n","o","p","q","r","s","t","u","v","w","x","y","z">>
Digits == {"0","1","2","3","4","5","6","7","8","9"}

Range(s) == {s[i] : i \in DOMAIN s}

\* the lower-case form of each upper-case letter
ToLower == [c \in Range(UpperLetters) |->
               LowerLetters[CHOOSE i \in 1..26 : UpperLetters[i] = c]]

\* str.lower() on one character
LowerChar(c) == IF c \in DOMAIN ToLower THEN ToLower[c] ELSE c

\* str.lower()
Lower(text) == [i \in 1..Len(text) |-> LowerChar(text[i])]

IsSpace(c) == c \in {" ", "\n", "\t"}

\* str.strip(): drops leading and trailing whitespace
Strip(text) ==
    LET keep == {i \in 1..Len(text) : ~IsSpace(text[i])}
    IN  IF keep = {} THEN <<>>
        ELSE LET first == CHOOSE i \in keep : \A j \in keep : i <= j
                 last  == CHOOSE i \in keep : \A j \in keep : j <= i
             IN  SubSeq(text, first, last)

\* str.startswith(prefix)
StartsWith(text, prefix) ==
    /\ Len(prefix) <= Len(text)
    /\ SubSeq(text, 1, Len(prefix)) = prefix

\* the Python test "k in text" on strings
Contains(text, k) ==
    \E i \in 1..(Len(text) - Len(k) + 1) : SubSeq(text, i, i + Len(k) - 1) = k

\* "".join(parts)
RECURSIVE Join(_)
Join(parts) == IF parts = <<>> THEN <<>> ELSE Head(parts) \o Join(Tail(parts))

(***************************************************************************)
(* Regular expressions of the classifier.  A pattern is the sequence of    *)
(* its items between the two \b anchors; an item is a character class that *)
(* is mandatory, optional ("?") or repeated ("+", "*").  re.search         *)
(* backtracks, so a pattern matches when some choice of the items does.    *)
(***************************************************************************)
Ch(S)   == [chars |-> S, opt |-> FALSE, many |-> FALSE]
Opt(S)  == [chars |-> S, opt |-> TRUE, many |-> FALSE]
Plus(S) == [chars |-> S, opt |-> FALSE, many |-> TRUE]
Star(S) == [chars |-> S, opt |-> TRUE, many |-> TRUE]

\* \w of the re module
WordChars == Range(UpperLetters) \cup Range(LowerLetters) \cup Digits \cup {"_"}
IsWordChar(c) == c \in WordChars

\* \b between text[p] and text[p+1]
WordBoundary(text, p) ==
    (p >= 1 /\ IsWordChar(text[p])) # (p + 1 <= Len(text) /\ IsWordChar(text[p + 1]))

\* positions at which items k.. of pat can end when they start after pos;
\* taken: item k has already consumed a character
RECURSIVE MatchEnds(_, _, _, _, _)
MatchEnds(text, pat, k, pos, taken) ==
    IF k > Len(pat) THEN {pos}
    ELSE (IF pos + 1 <= Len(text) /\ text[pos + 1] \in pat[k].chars
          THEN (IF pat[k].many THEN MatchEnds(text, pat, k, pos + 1, TRUE)
                ELSE MatchEnds(text, pat, k + 1, pos + 1, FALSE))
          ELSE {})
         \cup
         (IF pat[k].opt \/ taken THEN MatchEnds(text, pat, k + 1, pos, FALSE) ELSE {})

\* re.search(r'\b<pat>\b', text) is not None
Search(pat, text) ==
    \E start \in 0..Len(text) :
        /\ WordBoundary(text, start)
        /\ \E end \in MatchEnds(text, pat, 1, start, FALSE) : WordBoundary(text, end)

Degrees == {"1","2","3","4","5","6","7"}
\* the degree sign U+00B0, written as a token
DegreeSign == "deg"

nashville_patterns_NoBareDegree == {
    <<Ch(Degrees), Ch({"7"})>>,
    <<Ch(Degrees), Ch({DegreeSign})>>,
    <<Ch(Degrees), Ch({"/"}), Ch(Degrees)>>,
    <<Ch({"b"}), Ch(Degrees)>>,
    <<Ch(Degrees), Ch({"s"}), Ch({"u"}), Ch({"s"}), Ch({"2","4"})>> }

nashville_patterns == {
    <<Ch(Degrees), Opt({"m"})>>,
    <<Ch(Degrees), Ch({"7"})>>,
    <<Ch(Degrees), Ch({DegreeSign})>>,
    <<Ch(Degrees), Ch({"/"}), Ch(Degrees)>>,
    <<Ch({"b"}), Ch(Degrees)>>,
    <<Ch(Degrees), Ch({"s"}), Ch({"u"}), Ch({"s"}), Ch({"2","4"})>> }

ChordLetters == {"A","B","C","D","E","F","G"}

chord_patterns == {
    <<Ch(ChordLetters), Opt({"#","b"}), Opt({"m"}), Opt({"7"}), Opt({"9"}),
      Ch({"1"}), Opt({"1"}), Ch({"1"}), Opt({"3"})>>,
    <<Ch(ChordLetters), Opt({"#","b"}), Ch({"s"}), Ch({"u"}), Ch({"s"}), Ch({"2","4"})>>,
    <<Ch(ChordLetters), Opt({"#","b"}), Ch({"d"}), Ch({"i"}), Ch({"m"})>>,
    <<Ch(ChordLetters), Opt({"#","b"}), Ch({"a"}), Ch({"u"}), Ch({"g"})>> }

(***************************************************************************)
(* Knowledge tables: a sample of the entries of each table.                *)
(***************************************************************************)
PROFESSIONAL_INSTRUMENT_TERMS == { <<"f","u","z","z">>, <<"L","F","O">> }
SLAKH_CLASS_NAMES == { <<"P","i","a","n","o">>, <<"T","u","b","a">> }
current_keywords == { <<"m","u","s","i","c">>, <<"k","e","y">>, <<"g","u","i","t","a","r">>, <<"s","y","n","t","h">> }

get_enhanced_music_keywords ==
    current_keywords \cup PROFESSIONAL_INSTRUMENT_TERMS
        \cup {Lower(name) : name \in SLAKH_CLASS_NAMES}

get_comprehensive_music_theory_keywords == { <<"k","e","y">>, <<"r","o","o","t">>, <<"i","i","-","V","-","I">> }

get_professional_performance_keywords == { <<"b","y"," ","e","a","r">> }

FallbackKeywords_WithEmpty == { <<>>, <<"m","u","s","i","c">>, <<"k","e","y">>, <<"m","7">>, <<"i","i","-","V","-","I">>, <<"i","i","-","v","-","i">>,
                                <<"r","o","o","t">>, <<"p","i","a","n","o">> }

FallbackKeywords == { <<"m","u","s","i","c">>, <<"k","e","y">>, <<"m","7">>, <<"i","i","-","V","-","I">>, <<"i","i","-","v","-","i">>, <<"r","o","o","t">>,
                      <<"p","i","a","n","o">> }

is_professional_music_term(text) ==
    LET text_lower == Lower(text)
    IN  \/ \E keyword \in get_enhanced_music_keywords : Contains(text_lower, keyword)
        \/ \E class_name \in SLAKH_CLASS_NAMES : Contains(text_lower, Lower(class_name))

is_music_theory_term(text) ==
    LET text_lower == Lower(text)
    IN  \E keyword \in get_comprehensive_music_theory_keywords :
            Contains(text_lower, Lower(keyword))

is_professional_performance_term(text) ==
    LET text_lower == Lower(text)
    IN  \E keyword \in get_professional_performance_keywords :
            Contains(text_lower, Lower(keyword))

\* self.music_keywords as __init__ builds it
music_keywords ==
    LET enhanced_keywords ==
            (IF SLAKH_AVAILABLE THEN get_enhanced_music_keywords ELSE {})
            \cup (IF THEORY_AVAILABLE THEN get_comprehensive_music_theory_keywords ELSE {})
            \cup (IF PERFORMANCE_AVAILABLE THEN get_professional_performance_keywords ELSE {})
    IN  IF enhanced_keywords # {} THEN enhanced_keywords ELSE FallbackKeywords

is_music_related_NoBypass(text) ==
    LET text_lower == Lower(text)
    IN  \/ SLAKH_AVAILABLE /\ is_professional_music_term(text)
        \/ THEORY_AVAILABLE /\ is_music_theory_term(text)
        \/ PERFORMANCE_AVAILABLE /\ is_professional_performance_term(text)
        \/ \E keyword \in music_keywords : Contains(text_lower, keyword)
        \/ \E pattern \in nashville_patterns : Search(pattern, text_lower)
        \/ \E pattern \in chord_patterns : Search(pattern, text)

\* is_music_related of tinyllama_runner, qwen_music_tutor and
\* music_instructor_inference (the three copies are the same code)
is_music_related(text) ==
    IF ~music_only THEN TRUE
    ELSE LET text_lower == Lower(text)
         IN  \/ SLAKH_AVAILABLE /\ is_professional_music_term(text)
             \/ THEORY_AVAILABLE /\ is_music_theory_term(text)
             \/ PERFORMANCE_AVAILABLE /\ is_professional_performance_term(text)
             \/ \E keyword \in music_keywords : Contains(text_lower, keyword)
             \/ \E pattern \in nashville_patterns : Search(pattern, text_lower)
             \/ \E pattern \in chord_patterns : Search(pattern, text)

(***************************************************************************)
(* is_music_related of openai_music_tutor.  The patterns are searched in   *)
(* the lowered prompt with re.IGNORECASE, so a letter class is its lower   *)
(* case.  MUSIC_KEYWORDS is a sample of the list of the source.            *)
(***************************************************************************)
MUSIC_KEYWORDS == { <<"m","u","s","i","c">>, <<"k","e","y">>, <<"s","u","s">>, <<"a","d","d">>, <<"b","p","m">>, <<"s","o","l","o">>, <<"m","a","j","o","r">>,
                    <<"p","r","o","g","r","e","s","s","i","o","n">>, <<"v","o","i","c","e"," ","l","e","a","d","i","n","g">>, <<"g","u","i","t","a","r">>, <<"c","h","o","r","d">>,
                    <<"d","o","m","i","n","a","n","t">>, <<"l","f","o">>, <<"m","i","d","i">>, <<"p","i","a","n","o">> }

LowerChordLetters == {"a","b","c","d","e","f","g"}

\* a literal word as pattern items
Word(text) == [i \in 1..Len(text) |-> Ch({text[i]})]

ChordQualities == { <<"m","a","j","o","r">>, <<"m","i","n","o","r">>, <<"m">>, <<"m","a","j">>, <<"d","i","m">>, <<"a","u","g">>, <<"s","u","s">>, <<"a","d","d">> }

WhiteSpace == {" ", "\n", "\t"}
Spaces == Star(WhiteSpace)

\* the alternatives of the technology and theory patterns, each r'\b(...)\b'
PatternWords ==
    { <<"d","a","w">>, <<"v","s","t">>, <<"p","l","u","g","i","n">>, <<"m","i","d","i">>, <<"a","u","d","i","o">>,
      <<"r","e","c","o","r","d","i","n","g">>, <<"m","i","x","i","n","g">>, <<"m","a","s","t","e","r","i","n","g">>, <<"p","r","o","d","u","c","t","i","o","n">>,
      <<"s","y","n","t","h","e","s","i","z","e","r">>, <<"s","y","n","t","h">>, <<"o","s","c","i","l","l","a","t","o","r">>, <<"f","i","l","t","e","r">>, <<"l","f","o">>, <<"a","d","s","r">>,
      <<"c","o","u","n","t","e","r","p","o","i","n","t">>, <<"v","o","i","c","e"," ","l","e","a","d","i","n","g">>, <<"s","p","e","c","i","e","s">>, <<"f","u","g","u","e">>, <<"s","o","n","a","t","a">>, <<"r","o","n","d","o">>,
      <<"c","h","r","o","m","a","t","i","c">>, <<"d","i","a","t","o","n","i","c">>, <<"m","o","d","a","l">>, <<"a","t","o","n","a","l">>, <<"p","e","n","t","a","t","o","n","i","c">>, <<"w","h","o","l","e"," ","t","o","n","e">>,
      <<"e","a","r"," ","t","r","a","i","n","i","n","g">>, <<"s","i","g","h","t"," ","r","e","a","d","i","n","g">>, <<"p","e","r","f","e","c","t"," ","p","i","t","c","h">>, <<"r","e","l","a","t","i","v","e"," ","p","i","t","c","h">> }

\* the notation, technology and theory patterns of music_patterns, each
\* searched between \b anchors
music_patterns ==
    { <<Ch(LowerChordLetters), Opt({"#","b"}), Spaces>> \o Word(q) : q \in ChordQualities }
    \cup { <<Ch(LowerChordLetters), Opt({"#","b"}), Spaces, Ch(Digits)>>,
           <<Plus(Digits), Ch({"/"}), Plus(Digits)>>,
           Word(<<"b","p","m">>),
           <<Ch(LowerChordLetters), Opt({"#","b"}), Spaces>> \o Word(<<"s","c","a","l","e">>),
           Word(<<"k","e","y">>) \o <<Plus(WhiteSpace)>> \o Word(<<"o","f">>) \o
               <<Plus(WhiteSpace), Ch(LowerChordLetters), Opt({"#","b"})>>,
           <<Plus(Digits), Ch({"-"}), Plus(Digits), Opt({"m"}), Ch({"-"}),
             Plus(Digits), Ch({"-"}), Plus(Digits)>>,
           <<Plus({"i","v","x"})>>,
           <<Plus(Digits)>> \o Word(<<"t","h">>) }
    \cup { Word(w) : w \in PatternWords }

\* the intent patterns of music_patterns, r'<first>.*<second>': the
\* alternatives of the two groups and the places where a \b stands
intent_patterns == {
    [first |-> { <<"h","o","w"," ","t","o">>, <<"w","h","a","t"," ","i","s">>, <<"e","x","p","l","a","i","n">>, <<"d","i","f","f","e","r","e","n","c","e"," ","b","e","t","w","e","e","n">>,
                 <<"m","e","a","n","i","n","g"," ","o","f">>, <<"e","x","a","m","p","l","e"," ","o","f">> },
     lead |-> FALSE, trail |-> FALSE, bound |-> TRUE,
     second |-> { <<"c","h","o","r","d">>, <<"s","c","a","l","e">>, <<"n","o","t","e">>, <<"s","o","u","n","d">>, <<"s","o","n","g">>, <<"m","u","s","i","c">>, <<"p","l","a","y">>,
                  <<"i","n","s","t","r","u","m","e","n","t">>, <<"t","h","e","o","r","y">>, <<"r","h","y","t","h","m">>, <<"m","e","l","o","d","y">>, <<"h","a","r","m","o","n","y">>,
                  <<"b","e","a","t">>, <<"t","e","m","p","o">>, <<"k","e","y">> }],
    [first |-> { <<"l","e","a","r","n">>, <<"p","r","a","c","t","i","c","e">>, <<"i","m","p","r","o","v","e">>, <<"s","t","u","d","y">> },
     lead |-> FALSE, trail |-> FALSE, bound |-> TRUE,
     second |-> { <<"m","u","s","i","c">>, <<"g","u","i","t","a","r">>, <<"p","i","a","n","o">>, <<"b","a","s","s">>, <<"d","r","u","m","s">>, <<"v","i","o","l","i","n">>,
                  <<"s","i","n","g","i","n","g">>, <<"t","h","e","o","r","y">>, <<"c","h","o","r","d">>, <<"s","c","a","l","e">>, <<"i","n","s","t","r","u","m","e","n","t">> }],
    [first |-> { <<"w","h","a","t"," ","d","o","e","s">>, <<"w","h","a","t"," ","m","e","a","n">>, <<"w","h","a","t"," ","m","e","a","n","s">> },
     lead |-> FALSE, trail |-> FALSE, bound |-> TRUE,
     second |-> { <<"c","h","o","r","d">>, <<"s","c","a","l","e">>, <<"n","o","t","e">>, <<"k","e","y">>, <<"t","e","m","p","o">>, <<"r","h","y","t","h","m">>,
                  <<"m","e","l","o","d","y">>, <<"h","a","r","m","o","n","y">>, <<"p","r","o","g","r","e","s","s","i","o","n">>, <<"i","n","t","e","r","v","a","l">> }],
    [first |-> { <<"p","l","a","y">>, <<"p","l","a","y","i","n","g">>, <<"l","e","a","r","n">>, <<"p","r","a","c","t","i","c","e">> },
     lead |-> TRUE, trail |-> FALSE, bound |-> TRUE,
     second |-> { <<"g","u","i","t","a","r">>, <<"p","i","a","n","o">>, <<"b","a","s","s">>, <<"d","r","u","m","s">>, <<"v","i","o","l","i","n">>, <<"s","a","x","o","p","h","o","n","e">>,
                  <<"f","l","u","t","e">>, <<"u","k","u","l","e","l","e">>, <<"m","a","n","d","o","l","i","n">>, <<"m","u","s","i","c">>, <<"i","n","s","t","r","u","m","e","n","t">> }],
    [first |-> { <<"m","u","s","i","c">>, <<"s","o","n","g">>, <<"c","h","o","r","d">>, <<"s","c","a","l","e">>, <<"n","o","t","e">>, <<"k","e","y">>, <<"t","e","m","p","o">>,
                 <<"i","n","s","t","r","u","m","e","n","t">> },
     lead |-> TRUE, trail |-> TRUE, bound |-> FALSE,
     second |-> { <<"q","u","e","s","t","i","o","n">>, <<"h","e","l","p">>, <<"e","x","p","l","a","i","n">>, <<"u","n","d","e","r","s","t","a","n","d">>, <<"l","e","a","r","n">>,
                  <<"p","r","a","c","t","i","c","e">> }] }

\* the word w stands in the text right after position i
WordAt(text, i, w) ==
    /\ i + Len(w) <= Len(text)
    /\ SubSeq(text, i + 1, i + Len(w)) = w

\* ".*" can cover text[from+1..to]: "." is any character but the newline
DotStar(text, from, to) == \A k \in (from + 1)..to : text[k] # "\n"

\* re.search of an intent pattern
SearchIntent(p, text) ==
    \E a \in p.first : \E i \in 0..Len(text) :
        /\ WordAt(text, i, a)
        /\ p.lead => WordBoundary(text, i)
        /\ p.trail => WordBoundary(text, i + Len(a))
        /\ \E b \in p.second : \E j \in (i + Len(a))..Len(text) :
              /\ WordAt(text, j, b)
              /\ p.bound => (WordBoundary(text, j) /\ WordBoundary(text, j + Len(b)))
              /\ DotStar(text, i + Len(a), j)

openai_is_music_related(prompt) ==
    LET lowered == Lower(prompt)
    IN  \/ /\ SLAKH_AVAILABLE
           /\ \/ \E keyword \in get_enhanced_music_keywords : Contains(lowered, keyword)
              \/ is_professional_music_term(prompt)
        \/ \E keyword \in MUSIC_KEYWORDS : Contains(lowered, keyword)
        \/ \E pattern \in music_patterns : Search(pattern, lowered)
        \/ \E pattern \in intent_patterns : SearchIntent(pattern, lowered)

(***************************************************************************)
(* Fixed texts.  A long message is written up to the words that decide     *)
(* how the code treats it (its prefix and the keyword it holds).           *)
(***************************************************************************)
ErrorPrefix == <<"E","r","r","o","r",":">>
\* "I'm sorry, I can only explain music-related questions or concepts. ..."
RefusalText == <<"I","'","m"," ","s","o","r","r","y",","," ","I"," ","c","a","n"," ","o","n","l","y"," ","e","x","p","l","a","i","n"," ","m","u","s","i","c">>
\* "... Hi! I'm HorizonJam, your music theory tutor. ..."
HorizonJamRefusal == <<"H","i","!"," ","I","'","m"," ","H","o","r","i","z","o","n","J","a","m",","," ","y","o","u","r"," ","m","u","s","i","c">>
OpenAIUnavailable == <<"E","r","r","o","r",":"," ","O","p","e","n","A","I"," ","A","P","I"," ","n","o","t"," ","a","v","a","i","l","a","b","l","e"," ","o","r"," ","A","P","I"," ","k","e","y"," ","n","o","t"," ","s","e","t">>
QwenUnavailable == <<"E","r","r","o","r",":"," ","Q","w","e","n","2","-","A","u","d","i","o"," ","m","o","d","e","l"," ","n","o","t"," ","a","v","a","i","l","a","b","l","e"," ","o","r"," ","n","o","t"," ","l","o","a","d","e","d"," ","p","r","o","p","e","r","l","y">>
\* str(e) of the exception the model call raises
ExcText == <<"x">>

TinyllamaError(e) == <<"E","r","r","o","r",":"," ">> \o e
QwenError(e) == <<"E","r","r","o","r"," ","g","e","n","e","r","a","t","i","n","g"," ","c","h","a","t"," ","r","e","s","p","o","n","s","e",":"," ">> \o e
OpenAIError(e) == <<"E","r","r","o","r"," ","g","e","n","e","r","a","t","i","n","g"," ","r","e","s","p","o","n","s","e",":"," ">> \o e

(***************************************************************************)
(* What the user types and what the model call does.                       *)
(***************************************************************************)
Lines == { <<"q","u","i","t">>, <<"E","X","I","T">>, <<"B","y","e">>, <<"c","l","e","a","r">>, <<"C","L","E","A","R"," ">>, <<"s","i","n","g","l","e">>, <<"c","o","n","t","e","x","t">>, <<"s","t","a","t","u","s">>,
           <<"h","e","l","p">>, <<>>, <<"k","e","y">>, <<"C","d","i","m">>, <<"h","i">> }

\* one call of the chat service or model: the pieces it delivers, and
\* whether it raises after them
ModelRuns == {
    [chunks |-> <<>>, raises |-> FALSE],
    [chunks |-> << <<"S","o">>, <<"l","o">> >>, raises |-> FALSE],
    [chunks |-> <<>>, raises |-> TRUE],
    [chunks |-> << <<"S","o">> >>, raises |-> TRUE] }

Tutors == {"tinyllama", "qwen", "openai", "instructor"}

\* max_history_length of music_instructor_inference
InstructorHistoryLength == 4

Limits == (0 - 1)..MaxLimit

user_turn(text) == [role |-> "user", content |-> text]
assistant_turn(text) == [role |-> "assistant", content |-> text]

IsUser(msg) == msg.role = "user"
IsSystem(msg) == msg.role = "system"

\* list[-n:] of Python
LastN(list, n) ==
    IF n > 0 THEN SubSeq(list, IF Len(list) > n THEN Len(list) - n + 1 ELSE 1, Len(list))
    ELSE IF n = 0 THEN list
    ELSE IF 0 - n >= Len(list) THEN <<>>
    ELSE SubSeq(list, (0 - n) + 1, Len(list))

\* the "limit conversation history" step of interactive_mode
TrimHistory(history, max_history_length) ==
    IF Len(history) > max_history_length
    THEN LET system_messages == SelectSeq(history, IsSystem)
             recent_messages == LastN(history, max_history_length)
         IN  system_messages \o recent_messages
    ELSE history

\* PrepareMessages that forgets the user turn in conversational mode
PrepareMessages_NoUserTurn(history, text, single) ==
    IF single
    THEN [messages |-> <<user_turn(text)>>, history |-> history]
    ELSE LET trimmed == TrimHistory(history, context_limit)
         IN  [messages |-> trimmed, history |-> trimmed]

\* PrepareMessages that keeps the conversation in single-question mode
PrepareMessages_IgnoreSingle(history, text, single) ==
    LET trimmed == TrimHistory(Append(history, user_turn(text)), context_limit)
    IN  [messages |-> trimmed, history |-> trimmed]

\* current_messages and the history after "prepare messages"
PrepareMessages(history, text, single) ==
    IF single
    THEN [messages |-> <<user_turn(text)>>, history |-> history]
    ELSE LET trimmed == TrimHistory(Append(history, user_turn(text)), context_limit)
         IN  [messages |-> trimmed, history |-> trimmed]

(***************************************************************************)
(* Commands of the loops.                                                  *)
(***************************************************************************)
\* CommandOf that compares the typed text without lower()
CommandOf_CaseSensitive(t, text) ==
    LET low == text
    IN  IF t = "openai" /\ text = <<>> THEN "blank"
        ELSE IF low \in { <<"q","u","i","t">>, <<"e","x","i","t">>, <<"b","y","e">> } THEN "quit"
        ELSE IF t # "instructor" /\ low = <<"c","l","e","a","r">> THEN "clear"
        ELSE IF t = "instructor" /\ low = <<"h","e","l","p">> THEN "help"
        ELSE IF t \in {"tinyllama", "qwen", "instructor"} /\ low = <<"s","i","n","g","l","e">> THEN "single"
        ELSE IF t \in {"tinyllama", "qwen", "instructor"} /\ low = <<"c","o","n","t","e","x","t">> THEN "context"
        ELSE IF t \in {"tinyllama", "qwen"} /\ low = <<"s","t","a","t","u","s">> THEN "status"
        ELSE IF t = "openai" /\ StartsWith(low, <<"t","t","s"," ">>) THEN "tts"
        ELSE IF text = <<>> THEN "blank"
        ELSE "question"

CommandOf(t, text) ==
    LET low == Lower(text)
    IN  IF t = "openai" /\ text = <<>> THEN "blank"
        ELSE IF low \in { <<"q","u","i","t">>, <<"e","x","i","t">>, <<"b","y","e">> } THEN "quit"
        ELSE IF t # "instructor" /\ low = <<"c","l","e","a","r">> THEN "clear"
        ELSE IF t = "instructor" /\ low = <<"h","e","l","p">> THEN "help"
        ELSE IF t \in {"tinyllama", "qwen", "instructor"} /\ low = <<"s","i","n","g","l","e">> THEN "single"
        ELSE IF t \in {"tinyllama", "qwen", "instructor"} /\ low = <<"c","o","n","t","e","x","t">> THEN "context"
        ELSE IF t \in {"tinyllama", "qwen"} /\ low = <<"s","t","a","t","u","s">> THEN "status"
        ELSE IF t = "openai" /\ StartsWith(low, <<"t","t","s"," ">>) THEN "tts"
        ELSE IF text = <<>> THEN "blank"
        ELSE "question"

Init ==
    /\ tutor \in Tutors
    /\ music_only \in BOOLEAN
    /\ context_limit \in (IF tutor = "instructor" THEN {InstructorHistoryLength} ELSE Limits)
    /\ client_ready \in (IF tutor = "openai" THEN {TRUE} ELSE BOOLEAN)
    /\ SLAKH_AVAILABLE = TRUE
    /\ THEORY_AVAILABLE = TRUE
    /\ PERFORMANCE_AVAILABLE = TRUE
    /\ conversation_history = <<>>
    /\ single_question_mode \in (IF tutor = "instructor" THEN {TRUE}
                                 ELSE IF tutor = "openai" THEN {FALSE} ELSE BOOLEAN)
    /\ running = TRUE
    /\ user_input = <<>>
    /\ op = "start"
    /\ current_messages = <<>>
    /\ sent = <<>>
    /\ response_content = <<>>
    /\ error_text = <<>>
    /\ raised = FALSE
    /\ classifier_calls = 0
    /\ api_calls = 0
    /\ called = ""
    /\ argument = <<>>
    /\ returned = <<>>
    /\ consulted = {}
    /\ context_additions = <<>>

\* an iteration that reaches "break" or "continue" before any dispatch
CommandStep(line, name) ==
    /\ running
    /\ CommandOf(tutor, Strip(line)) = name
    /\ user_input' = Strip(line)
    /\ op' = name
    /\ current_messages' = <<>>
    /\ sent' = <<>>
    /\ response_content' = <<>>
    /\ error_text' = <<>>
    /\ raised' = FALSE
    /\ classifier_calls' = 0
    /\ api_calls' = 0
    /\ UNCHANGED <<config, call>>

Quit(line) ==
    /\ CommandStep(line, "quit")
    /\ running' = FALSE
    /\ UNCHANGED <<conversation_history, single_question_mode>>

Clear(line) ==
    /\ CommandStep(line, "clear")
    /\ conversation_history' = <<>>
    /\ UNCHANGED <<single_question_mode, running>>

\* Single that leaves the history in place
Single_KeepsHistory(line) ==
    /\ CommandStep(line, "single")
    /\ single_question_mode' = TRUE
    /\ UNCHANGED <<conversation_history, running>>

Single(line) ==
    /\ CommandStep(line, "single")
    /\ single_question_mode' = TRUE
    /\ conversation_history' = <<>>
    /\ UNCHANGED running

Context(line) ==
    /\ CommandStep(line, "context")
    /\ single_question_mode' = FALSE
    /\ UNCHANGED <<conversation_history, running>>

Status(line) ==
    /\ CommandStep(line, "status")
    /\ UNCHANGED <<conversation_history, single_question_mode, running>>

Help(line) ==
    /\ CommandStep(line, "help")
    /\ UNCHANGED <<conversation_history, single_question_mode, running>>

\* "if not user_input: continue"
Blank(line) ==
    /\ CommandStep(line, "blank")
    /\ UNCHANGED <<conversation_history, single_question_mode, running>>


(***************************************************************************)
(* Knowledge tables and their lookup functions (slakh_instrument_data,     *)
(* musictheory_net_data, professional_performance_data).  The MIDI table   *)
(* is complete; the concept tables are a sample of their entries, in the   *)
(* order of the source.                                                    *)
(***************************************************************************)
\* largest program number handed to get_instrument_class
MaxProgram == 200

\* Python's None and the empty dict
None == [absent |-> "None"]
EmptyDict == [absent |-> "{}"]

\* the truth value Python gives a lookup result in "if info:"
Truthy(value) == value # None /\ value # EmptyDict

DigitChars == <<"0","1","2","3","4","5","6","7","8","9">>

\* str(n) of a natural number
RECURSIVE Str(_)
Str(n) == IF n < 10 THEN <<DigitChars[n + 1]>>
          ELSE Str(n \div 10) \o <<DigitChars[(n % 10) + 1]>>

MIDI_TO_SLAKH_CLASS ==
    [p \in 0..128 |->
        CASE
             p \in 0..3 -> <<"P","i","a","n","o">>
          [] p \in 4..5 -> <<"E","l","e","c","t","r","i","c"," ","P","i","a","n","o">>
          [] p \in 6..6 -> <<"H","a","r","p","s","i","c","h","o","r","d">>
          [] p \in 7..7 -> <<"C","l","a","v","i","n","e","t">>
          [] p \in 8..14 -> <<"P","i","t","c","h","e","d"," ","P","e","r","c","u","s","s","i","o","n">>
          [] p \in 15..15 -> <<"D","u","l","c","i","m","e","r">>
          [] p \in 16..20 -> <<"O","r","g","a","n">>
          [] p \in 21..21 -> <<"A","c","c","o","r","d","i","o","n">>
          [] p \in 22..22 -> <<"H","a","r","m","o","n","i","c","a">>
          [] p \in 23..23 -> <<"A","c","c","o","r","d","i","o","n">>
          [] p \in 24..25 -> <<"A","c","o","u","s","t","i","c"," ","G","u","i","t","a","r">>
          [] p \in 26..31 -> <<"E","l","e","c","t","r","i","c"," ","G","u","i","t","a","r">>
          [] p \in 32..39 -> <<"B","a","s","s">>
          [] p \in 40..40 -> <<"V","i","o","l","i","n">>
          [] p \in 41..41 -> <<"V","i","o","l","a">>
          [] p \in 42..42 -> <<"C","e","l","l","o">>
          [] p \in 43..43 -> <<"C","o","n","t","r","a","b","a","s","s">>
          [] p \in 44..45 -> <<"V","i","o","l","i","n">>
          [] p \in 46..46 -> <<"H","a","r","p">>
          [] p \in 47..51 -> <<"S","t","r","i","n","g","s">>
          [] p \in 52..55 -> <<"V","o","i","c","e">>
          [] p \in 56..56 -> <<"T","r","u","m","p","e","t">>
          [] p \in 57..57 -> <<"T","r","o","m","b","o","n","e">>
          [] p \in 58..58 -> <<"T","u","b","a">>
          [] p \in 59..59 -> <<"T","r","u","m","p","e","t">>
          [] p \in 60..60 -> <<"F","r","e","n","c","h"," ","H","o","r","n">>
          [] p \in 61..63 -> <<"B","r","a","s","s">>
          [] p \in 64..67 -> <<"S","a","x","o","p","h","o","n","e">>
          [] p \in 68..68 -> <<"O","b","o","e">>
          [] p \in 69..69 -> <<"E","n","g","l","i","s","h"," ","H","o","r","n">>
          [] p \in 70..70 -> <<"B","a","s","s","o","o","n">>
          [] p \in 71..71 -> <<"C","l","a","r","i","n","e","t">>
          [] p \in 72..72 -> <<"P","i","c","c","o","l","o">>
          [] p \in 73..73 -> <<"F","l","u","t","e">>
          [] p \in 74..74 -> <<"R","e","c","o","r","d","e","r">>
          [] p \in 75..75 -> <<"P","a","n"," ","F","l","u","t","e">>
          [] p \in 76..76 -> <<"B","l","o","w","n"," ","B","o","t","t","l","e">>
          [] p \in 77..77 -> <<"S","h","a","k","u","h","a","c","h","i">>
          [] p \in 78..78 -> <<"W","h","i","s","t","l","e">>
          [] p \in 79..79 -> <<"O","c","a","r","i","n","a">>
          [] p \in 80..87 -> <<"S","y","n","t","h"," ","L","e","a","d">>
          [] p \in 88..95 -> <<"S","y","n","t","h"," ","P","a","d">>
          [] p \in 96..103 -> <<"S","y","n","t","h"," ","E","f","f","e","c","t","s">>
          [] p \in 104..104 -> <<"E","t","h","n","i","c">>
          [] p \in 105..105 -> <<"B","a","n","j","o">>
          [] p \in 106..109 -> <<"E","t","h","n","i","c">>
          [] p \in 110..110 -> <<"F","i","d","d","l","e">>
          [] p \in 111..111 -> <<"E","t","h","n","i","c">>
          [] p \in 112..119 -> <<"P","i","t","c","h","e","d"," ","P","e","r","c","u","s","s","i","o","n">>
          [] p \in 120..127 -> <<"S","y","n","t","h"," ","E","f","f","e","c","t","s">>
          [] p \in 128..128 -> <<"D","r","u","m","s">> ]

Unknown == <<"U","n","k","n","o","w","n">>

get_instrument_class_NoDrums(midi_program) ==
    IF midi_program \in 0..127
    THEN MIDI_TO_SLAKH_CLASS[midi_program]
    ELSE Unknown

\* MIDI_TO_SLAKH_CLASS.get(midi_program, 'Unknown')
get_instrument_class(midi_program) ==
    IF midi_program \in DOMAIN MIDI_TO_SLAKH_CLASS
    THEN MIDI_TO_SLAKH_CLASS[midi_program]
    ELSE Unknown

\* SLAKH_INSTRUMENT_CLASSES in the order of the dict: the description and
\* the midi_programs of each class
SLAKH_INSTRUMENT_CLASSES == <<
    [name |-> <<"A","c","o","u","s","t","i","c"," ","G","u","i","t","a","r">>, description |-> <<"A","c","o","u","s","t","i","c"," ","s","t","e","e","l","-","s","t","r","i","n","g"," ","a","n","d"," ","n","y","l","o","n","-","s","t","r","i","n","g"," ","g","u","i","t","a","r","s">>,
     midi_programs |-> <<24, 25>>],
    [name |-> <<"E","l","e","c","t","r","i","c"," ","G","u","i","t","a","r">>, description |-> <<"C","l","e","a","n"," ","a","n","d"," ","d","i","s","t","o","r","t","e","d"," ","e","l","e","c","t","r","i","c"," ","g","u","i","t","a","r","s">>,
     midi_programs |-> <<26, 27, 28, 29, 30, 31>>],
    [name |-> <<"B","a","s","s">>, description |-> <<"E","l","e","c","t","r","i","c"," ","a","n","d"," ","a","c","o","u","s","t","i","c"," ","b","a","s","s"," ","g","u","i","t","a","r","s">>,
     midi_programs |-> <<32, 33, 34, 35, 36, 37, 38, 39>>],
    [name |-> <<"V","i","o","l","i","n">>, description |-> <<"O","r","c","h","e","s","t","r","a","l"," ","a","n","d"," ","s","o","l","o"," ","v","i","o","l","i","n">>,
     midi_programs |-> <<40>>],
    [name |-> <<"V","i","o","l","a">>, description |-> <<"M","i","d","-","r","a","n","g","e"," ","s","t","r","i","n","g"," ","i","n","s","t","r","u","m","e","n","t">>,
     midi_programs |-> <<41>>],
    [name |-> <<"C","e","l","l","o">>, description |-> <<"B","a","s","s","-","r","a","n","g","e"," ","b","o","w","e","d"," ","s","t","r","i","n","g"," ","i","n","s","t","r","u","m","e","n","t">>,
     midi_programs |-> <<42>>],
    [name |-> <<"C","o","n","t","r","a","b","a","s","s">>, description |-> <<"D","o","u","b","l","e"," ","b","a","s","s",","," ","o","r","c","h","e","s","t","r","a","l"," ","b","a","s","s">>,
     midi_programs |-> <<43>>],
    [name |-> <<"P","i","a","n","o">>, description |-> <<"A","c","o","u","s","t","i","c"," ","g","r","a","n","d"," ","a","n","d"," ","u","p","r","i","g","h","t"," ","p","i","a","n","o","s">>,
     midi_programs |-> <<0, 1, 2, 3>>],
    [name |-> <<"E","l","e","c","t","r","i","c"," ","P","i","a","n","o">>, description |-> <<"E","l","e","c","t","r","i","c"," ","a","n","d"," ","d","i","g","i","t","a","l"," ","p","i","a","n","o","s">>,
     midi_programs |-> <<4, 5>>],
    [name |-> <<"H","a","r","p","s","i","c","h","o","r","d">>, description |-> <<"B","a","r","o","q","u","e"," ","k","e","y","b","o","a","r","d"," ","i","n","s","t","r","u","m","e","n","t">>,
     midi_programs |-> <<6>>],
    [name |-> <<"C","l","a","v","i","n","e","t">>, description |-> <<"F","u","n","k","y"," ","e","l","e","c","t","r","i","c"," ","k","e","y","b","o","a","r","d">>,
     midi_programs |-> <<7>>],
    [name |-> <<"O","r","g","a","n">>, description |-> <<"H","a","m","m","o","n","d"," ","a","n","d"," ","p","i","p","e"," ","o","r","g","a","n","s">>,
     midi_programs |-> <<16, 17, 18, 19, 20, 21, 22, 23>>],
    [name |-> <<"F","l","u","t","e">>, description |-> <<"C","o","n","c","e","r","t"," ","f","l","u","t","e"," ","f","a","m","i","l","y">>,
     midi_programs |-> <<73>>],
    [name |-> <<"O","b","o","e">>, description |-> <<"D","o","u","b","l","e","-","r","e","e","d"," ","w","o","o","d","w","i","n","d">>,
     midi_programs |-> <<68>>],
    [name |-> <<"C","l","a","r","i","n","e","t">>, description |-> <<"S","i","n","g","l","e","-","r","e","e","d"," ","w","o","o","d","w","i","n","d">>,
     midi_programs |-> <<71>>],
    [name |-> <<"S","a","x","o","p","h","o","n","e">>, description |-> <<"A","l","t","o",","," ","t","e","n","o","r",","," ","s","o","p","r","a","n","o",","," ","b","a","r","i","t","o","n","e"," ","s","a","x","o","p","h","o","n","e">>,
     midi_programs |-> <<64, 65, 66, 67>>],
    [name |-> <<"T","r","u","m","p","e","t">>, description |-> <<"B","r","a","s","s"," ","i","n","s","t","r","u","m","e","n","t",","," ","h","i","g","h","e","s","t"," ","b","r","a","s","s">>,
     midi_programs |-> <<56>>],
    [name |-> <<"F","r","e","n","c","h"," ","H","o","r","n">>, description |-> <<"O","r","c","h","e","s","t","r","a","l"," ","b","r","a","s","s"," ","i","n","s","t","r","u","m","e","n","t">>,
     midi_programs |-> <<60>>],
    [name |-> <<"T","r","o","m","b","o","n","e">>, description |-> <<"S","l","i","d","e"," ","b","r","a","s","s"," ","i","n","s","t","r","u","m","e","n","t">>,
     midi_programs |-> <<57>>],
    [name |-> <<"T","u","b","a">>, description |-> <<"L","o","w","e","s","t"," ","b","r","a","s","s"," ","i","n","s","t","r","u","m","e","n","t">>,
     midi_programs |-> <<58>>],
    [name |-> <<"D","r","u","m","s">>, description |-> <<"A","c","o","u","s","t","i","c"," ","d","r","u","m"," ","k","i","t">>,
     midi_programs |-> <<128>>],
    [name |-> <<"P","i","t","c","h","e","d"," ","P","e","r","c","u","s","s","i","o","n">>, description |-> <<"X","y","l","o","p","h","o","n","e",","," ","m","a","r","i","m","b","a",","," ","v","i","b","e","s",","," ","t","i","m","p","a","n","i">>,
     midi_programs |-> <<8, 9, 10, 11, 12, 13, 14, 15>>],
    [name |-> <<"E","t","h","n","i","c">>, description |-> <<"W","o","r","l","d"," ","m","u","s","i","c"," ","i","n","s","t","r","u","m","e","n","t","s">>,
     midi_programs |-> <<104, 105, 106, 107, 108, 109, 110, 111>>],
    [name |-> <<"S","y","n","t","h"," ","L","e","a","d">>, description |-> <<"S","y","n","t","h","e","s","i","z","e","r"," ","l","e","a","d"," ","s","o","u","n","d","s">>,
     midi_programs |-> <<80, 81, 82, 83, 84, 85, 86, 87>>],
    [name |-> <<"S","y","n","t","h"," ","P","a","d">>, description |-> <<"S","y","n","t","h","e","s","i","z","e","r"," ","p","a","d"," ","s","o","u","n","d","s">>,
     midi_programs |-> <<88, 89, 90, 91, 92, 93, 94, 95>>],
    [name |-> <<"S","y","n","t","h"," ","E","f","f","e","c","t","s">>, description |-> <<"S","p","e","c","i","a","l"," ","s","y","n","t","h","e","s","i","z","e","r"," ","e","f","f","e","c","t","s">>,
     midi_programs |-> <<96, 97, 98, 99, 100, 101, 102, 103>>],
    [name |-> <<"V","o","i","c","e">>, description |-> <<"H","u","m","a","n"," ","v","o","c","a","l","s"," ","a","n","d"," ","v","o","c","a","l"," ","e","n","s","e","m","b","l","e","s">>,
     midi_programs |-> <<52, 53, 54, 55>>],
    [name |-> <<"H","a","r","p">>, description |-> <<"C","o","n","c","e","r","t"," ","h","a","r","p">>,
     midi_programs |-> <<46>>],
    [name |-> <<"D","u","l","c","i","m","e","r">>, description |-> <<"H","a","m","m","e","r","e","d"," ","d","u","l","c","i","m","e","r">>,
     midi_programs |-> <<15>>],
    [name |-> <<"B","a","n","j","o">>, description |-> <<"F","i","v","e","-","s","t","r","i","n","g"," ","b","a","n","j","o">>,
     midi_programs |-> <<105>>],
    [name |-> <<"F","i","d","d","l","e">>, description |-> <<"F","o","l","k"," ","v","i","o","l","i","n"," ","p","l","a","y","i","n","g"," ","s","t","y","l","e">>,
     midi_programs |-> <<110>>],
    [name |-> <<"A","c","c","o","r","d","i","o","n">>, description |-> <<"B","e","l","l","o","w","s","-","d","r","i","v","e","n"," ","r","e","e","d"," ","i","n","s","t","r","u","m","e","n","t">>,
     midi_programs |-> <<21, 22, 23>>],
    [name |-> <<"H","a","r","m","o","n","i","c","a">>, description |-> <<"D","i","a","t","o","n","i","c"," ","a","n","d"," ","c","h","r","o","m","a","t","i","c"," ","h","a","r","m","o","n","i","c","a">>,
     midi_programs |-> <<22>>],
    [name |-> <<"S","t","r","i","n","g","s">>, description |-> <<"O","r","c","h","e","s","t","r","a","l"," ","s","t","r","i","n","g"," ","s","e","c","t","i","o","n","s">>,
     midi_programs |-> <<48, 49, 50, 51>>] >>

\* SLAKH_INSTRUMENT_CLASSES.get(class_name, {})
get_instrument_info(class_name) ==
    IF \E i \in DOMAIN SLAKH_INSTRUMENT_CLASSES : SLAKH_INSTRUMENT_CLASSES[i].name = class_name
    THEN LET i == CHOOSE j \in DOMAIN SLAKH_INSTRUMENT_CLASSES :
                      SLAKH_INSTRUMENT_CLASSES[j].name = class_name
         IN  [description |-> SLAKH_INSTRUMENT_CLASSES[i].description,
              midi_programs |-> SLAKH_INSTRUMENT_CLASSES[i].midi_programs]
    ELSE EmptyDict

\* lessons of MUSICTHEORY_NET_CURRICULUM, in the order of the dict
MUSICTHEORY_NET_CURRICULUM == <<
    [section |-> "chords", lesson |-> "triads",
     concepts |-> << <<"t","r","i","a","d">>, <<"r","o","o","t">> >>,
     explanation |-> <<"T","r","i","a","d","s"," ","a","r","e"," ","t","h","r","e","e","-","n","o","t","e"," ","c","h","o","r","d","s"," ","b","u","i","l","t"," ","w","i","t","h"," ","t","h","i","r","d","s",","," ","f","o","r","m","i","n","g"," ","t","h","e"," ","b","a","s","i","s"," ","o","f"," ","t","o","n","a","l"," ","h","a","r","m","o","n","y",".">>],
    [section |-> "chord_progressions", lesson |-> "common_progressions",
     concepts |-> << <<"I","-","V","-","I">>, <<"i","i","-","V","-","I">> >>,
     explanation |-> <<"C","e","r","t","a","i","n"," ","c","h","o","r","d"," ","p","r","o","g","r","e","s","s","i","o","n","s"," ","c","r","e","a","t","e"," ","s","t","r","o","n","g"," ","h","a","r","m","o","n","i","c"," ","m","o","v","e","m","e","n","t"," ","a","n","d"," ","r","e","s","o","l","u","t","i","o","n",".">>] >>

\* the first lesson that lists the concept, compared in lower case
get_theory_explanation(concept) ==
    LET concept_lower == Lower(concept)
        Lists(lesson) == \E k \in DOMAIN lesson.concepts :
                             Lower(lesson.concepts[k]) = concept_lower
        hits == {i \in DOMAIN MUSICTHEORY_NET_CURRICULUM :
                     Lists(MUSICTHEORY_NET_CURRICULUM[i])}
    IN  IF hits = {} THEN None
        ELSE LET lesson == MUSICTHEORY_NET_CURRICULUM[CHOOSE i \in hits : \A j \in hits : i <= j]
             IN  [section |-> lesson.section, lesson |-> lesson.lesson,
                  explanation |-> lesson.explanation]

\* concepts of PROFESSIONAL_PERFORMANCE_KNOWLEDGE, in the order of the dict
PROFESSIONAL_PERFORMANCE_KNOWLEDGE == <<
    [concept |-> <<"k","e","y","_","c","h","a","n","g","e","_","c","o","m","m","u","n","i","c","a","t","i","o","n">>,
     description |-> <<"H","a","n","d"," ","s","i","g","n","a","l","s"," ","a","n","d"," ","v","e","r","b","a","l"," ","c","u","e","s"," ","f","o","r"," ","l","a","s","t","-","m","i","n","u","t","e"," ","k","e","y"," ","c","h","a","n","g","e","s">>],
    [concept |-> <<"c","h","o","r","d","_","p","r","o","g","r","e","s","s","i","o","n","_","a","n","a","l","y","s","i","s">>,
     description |-> <<"H","e","a","r","i","n","g"," ","a","n","d"," ","n","o","t","a","t","i","n","g"," ","c","o","m","p","l","e","x"," ","c","h","o","r","d"," ","p","r","o","g","r","e","s","s","i","o","n","s">>],
    [concept |-> <<"p","e","r","f","o","r","m","a","n","c","e","_","a","n","a","l","y","s","i","s">>,
     description |-> <<"A","n","a","l","y","z","i","n","g"," ","l","i","v","e"," ","p","e","r","f","o","r","m","a","n","c","e"," ","t","e","c","h","n","i","q","u","e","s"," ","b","y"," ","e","a","r">>],
    [concept |-> <<"r","o","o","t","l","e","s","s","_","v","o","i","c","i","n","g","s">>,
     description |-> <<"P","r","o","f","e","s","s","i","o","n","a","l"," ","r","o","o","t","l","e","s","s"," ","c","h","o","r","d"," ","v","o","i","c","i","n","g","s"," ","f","o","r"," ","c","o","m","p","i","n","g">>] >>

\* the first concept whose name or description contains the lowered query
get_performance_concept_info(concept) ==
    LET concept_lower == Lower(concept)
        hits == {i \in DOMAIN PROFESSIONAL_PERFORMANCE_KNOWLEDGE :
                     \/ Contains(Lower(PROFESSIONAL_PERFORMANCE_KNOWLEDGE[i].concept),
                                 concept_lower)
                     \/ Contains(Lower(PROFESSIONAL_PERFORMANCE_KNOWLEDGE[i].description),
                                 concept_lower)}
    IN  IF hits = {} THEN None
        ELSE LET entry == PROFESSIONAL_PERFORMANCE_KNOWLEDGE[
                              CHOOSE i \in hits : \A j \in hits : i <= j]
             IN  [concept |-> entry.concept, description |-> entry.description]

(***************************************************************************)
(* enrich_context_with_knowledge of tinyllama_runner.                      *)
(***************************************************************************)
\* range(128): the program numbers the scan visits
ScannedPrograms == 128

\* the elements of a set of numbers in ascending order
RECURSIVE Ascending(_)
Ascending(S) ==
    IF S = {} THEN <<>>
    ELSE LET least == CHOOSE x \in S : \A y \in S : x <= y
         IN  <<least>> \o Ascending(S \ {least})

\* str(program_num) of each number the scan visits
ProgramText == [program_num \in 0..(ScannedPrograms - 1) |-> Str(program_num)]

\* the "MIDI N maps to <class>" snippets of the loop over range(128):
\* one for each program number whose decimal form is in the text, ascending
MidiAdditions(text) ==
    LET found == Ascending({program_num \in 0..(ScannedPrograms - 1) :
                               Contains(text, ProgramText[program_num])})
    IN  [i \in 1..Len(found) |->
            <<"M","I","D","I"," ">> \o ProgramText[found[i]] \o <<" ","m","a","p","s"," ","t","o"," ">>
                \o get_instrument_class(found[i])]

\* instrument_name.lower() of each class of the table
LowerClassName ==
    [i \in DOMAIN SLAKH_INSTRUMENT_CLASSES |-> Lower(SLAKH_INSTRUMENT_CLASSES[i].name)]

\* the "<name>: <description>" snippets, in the order of the class table
InstrumentAdditions(text) ==
    LET text_lower == Lower(text)
        found == Ascending({i \in DOMAIN SLAKH_INSTRUMENT_CLASSES :
                     /\ Contains(text_lower, LowerClassName[i])
                     /\ Truthy(get_instrument_info(SLAKH_INSTRUMENT_CLASSES[i].name))})
    IN  [k \in 1..Len(found) |->
            LET instrument_name == SLAKH_INSTRUMENT_CLASSES[found[k]].name
            IN  instrument_name \o <<":"," ">> \o get_instrument_info(instrument_name).description]

TheoryAdditions(text) ==
    LET concept_found == get_theory_explanation(text)
    IN  IF Truthy(concept_found)
        THEN << <<"T","h","e","o","r","y"," ","c","o","n","t","e","x","t",":"," ">> \o concept_found.explanation >>
        ELSE <<>>

PerformanceAdditions(text) ==
    LET performance_concept == get_performance_concept_info(text)
    IN  IF Truthy(performance_concept)
        THEN << <<"P","e","r","f","o","r","m","a","n","c","e"," ","c","o","n","t","e","x","t",":"," ">> \o performance_concept.description >>
        ELSE <<>>

\* the list context_additions at the end of the scans
ContextAdditions(text) ==
    (IF SLAKH_AVAILABLE
     THEN MidiAdditions(text) \o InstrumentAdditions(text) ELSE <<>>)
    \o (IF THEORY_AVAILABLE THEN TheoryAdditions(text) ELSE <<>>)
    \o (IF PERFORMANCE_AVAILABLE THEN PerformanceAdditions(text) ELSE <<>>)

\* ' | '.join(parts)
RECURSIVE JoinBar(_)
JoinBar(parts) ==
    IF parts = <<>> THEN <<>>
    ELSE IF Len(parts) = 1 THEN Head(parts)
    ELSE Head(parts) \o <<" ","|"," ">> \o JoinBar(Tail(parts))

\* list[:n] of Python for n >= 0
FirstN(list, n) == SubSeq(list, 1, IF Len(list) < n THEN Len(list) ELSE n)

ContextLabel == <<"\n", "\n">> \o <<"R","e","l","e","v","a","n","t"," ","c","o","n","t","e","x","t",":"," ">>

enrich_context_with_knowledge_NoLimit(text) ==
    LET additions == ContextAdditions(text)
    IN  IF additions # <<>>
        THEN text \o ContextLabel \o JoinBar(additions)
        ELSE text

enrich_context_with_knowledge(text) ==
    LET additions == ContextAdditions(text)
    IN  IF additions # <<>>
        THEN text \o ContextLabel \o JoinBar(FirstN(additions, 3))
        ELSE text
(***************************************************************************)
(* A question: the part of the loop body after the commands.               *)
(***************************************************************************)
\* the longest history a question is asked with; one more exchange where
\* the request window of openai_music_tutor holds a single exchange
HistoryCap ==
    IF tutor = "openai" /\ context_limit = 1 THEN MaxHistory + 2 ELSE MaxHistory

AskStep(line) ==
    /\ running
    /\ CommandOf(tutor, Strip(line)) = "question"
    /\ Len(conversation_history) <= HistoryCap
    /\ user_input' = Strip(line)
    /\ UNCHANGED <<config, call, single_question_mode, running>>

\* the for-loop over the chunks of chat_response: text kept, error chunk met
RECURSIVE ReadChunks(_, _)
ReadChunks(yields, content) ==
    IF yields = <<>> THEN [content |-> content, error |-> <<>>]
    ELSE LET chunk == Head(yields)
         IN  IF chunk # <<>> /\ ~StartsWith(chunk, ErrorPrefix)
             THEN ReadChunks(Tail(yields), content \o chunk)
             ELSE IF StartsWith(chunk, ErrorPrefix)
             THEN [content |-> content, error |-> chunk]
             ELSE ReadChunks(Tail(yields), content)

system_turn(text) == [role |-> "system", content |-> text]

\* system_content of chat_response: "You are a comprehensive music expert
\* assistant. ..."
TinyllamaSystemPrompt == <<"Y","o","u"," ","a","r","e"," ","a"," ","c","o","m","p","r","e","h","e","n","s","i","v","e"," ","m","u","s","i","c"," ","e","x","p","e","r","t"," ","a","s","s","i","s","t","a","n","t",".">>

\* "Insert system prompt if not already present"
WithSystemPrompt(messages, system_content) ==
    IF messages = <<>> \/ ~IsSystem(messages[1])
    THEN <<system_turn(system_content)>> \o messages
    ELSE messages

\* the index the for-loop with break stops at: the first user message of
\* the list whose content is the given text, 0 if there is none
FirstUserWith(messages, text) ==
    LET hits == {i \in 1..Len(messages) :
                    IsUser(messages[i]) /\ messages[i].content = text}
    IN  IF hits = {} THEN 0 ELSE CHOOSE i \in hits : \A j \in hits : i <= j

\* "Enrich the user's query with relevant knowledge context": the list
\* chat_response works on after the replacement
EnrichLatest(messages) ==
    LET user_messages == SelectSeq(messages, IsUser)
    IN  IF user_messages = <<>> THEN messages
        ELSE LET latest == user_messages[Len(user_messages)].content
                 enriched_content == enrich_context_with_knowledge(latest)
                 i == FirstUserWith(messages, latest)
             IN  IF enriched_content # latest
                 THEN [messages EXCEPT ![i] = [@ EXCEPT !.content = enriched_content]]
                 ELSE messages

\* chat_response of tinyllama_runner: the chunks the generator yields, the
\* list it was given after its replacement, and the list it sends
TinyllamaChatResponse(messages, run) ==
    LET user_messages == SelectSeq(messages, IsUser)
        Answering(enriched) ==
            [yields |-> run.chunks \o
                        (IF run.raises THEN <<TinyllamaError(ExcText)>> ELSE <<>>),
             kind |-> IF run.raises THEN "failed" ELSE "answered",
             raised |-> FALSE,
             classified |-> IF user_messages # <<>> THEN 1 ELSE 0,
             called |-> 1,
             messages |-> enriched,
             sent |-> WithSystemPrompt(enriched, TinyllamaSystemPrompt)]
    IN  IF ~client_ready
        THEN [yields |-> <<OpenAIUnavailable>>, kind |-> "unavailable",
              raised |-> FALSE, classified |-> 0, called |-> 0,
              messages |-> messages, sent |-> <<>>]
        ELSE IF /\ user_messages # <<>>
                /\ ~is_music_related(user_messages[Len(user_messages)].content)
        THEN [yields |-> <<RefusalText>>, kind |-> "refused",
              raised |-> FALSE, classified |-> 1, called |-> 0,
              messages |-> messages, sent |-> <<>>]
        ELSE Answering(EnrichLatest(messages))

\* the history that aliases the list chat_response changed
HistoryAfterResponse_Aliased(history, messages, single) ==
    IF single THEN history ELSE messages

\* current_messages = conversation_history.copy(): what chat_response
\* replaces in its list does not reach the history
HistoryAfterResponse(history, messages, single) == history

AskTinyllama(line, run) ==
    /\ tutor = "tinyllama"
    /\ AskStep(line)
    /\ \E prep \in {PrepareMessages(conversation_history, Strip(line),
                                     single_question_mode)} :
       \E resp \in {TinyllamaChatResponse(prep.messages, run)} :
       LET read == IF resp.raised THEN [content |-> <<>>, error |-> <<>>]
                   ELSE ReadChunks(resp.yields, <<>>)
           history == HistoryAfterResponse(prep.history, resp.messages,
                                           single_question_mode)
       IN  /\ current_messages' = prep.messages
           /\ sent' = resp.sent
           /\ response_content' = read.content
           /\ error_text' = read.error
           /\ raised' = resp.raised
           /\ op' = IF resp.kind = "answered" /\ read.content = <<>> THEN "silent"
                    ELSE resp.kind
           /\ conversation_history' =
                  IF read.content # <<>> /\ ~single_question_mode
                  THEN Append(history, assistant_turn(read.content))
                  ELSE history
           /\ classifier_calls' = resp.classified
           /\ api_calls' = resp.called

\* system_content of qwen_music_tutor's chat_response
QwenSystemPrompt == <<"Y","o","u"," ","a","r","e"," ","a"," ","c","o","m","p","r","e","h","e","n","s","i","v","e"," ","m","u","s","i","c"," ","e","x","p","e","r","t"," ","a","s","s","i","s","t","a","n","t",".">>

\* chat_response of qwen_music_tutor: the text of the returned dict
QwenChatResponse(messages, run) ==
    LET user_messages == SelectSeq(messages, IsUser)
        latest_text == IF user_messages = <<>> THEN <<>>
                       ELSE user_messages[Len(user_messages)].content
    IN  IF ~client_ready
        THEN [text |-> QwenUnavailable, kind |-> "unavailable",
              raised |-> FALSE, classified |-> 0, called |-> 0, sent |-> <<>>]
        ELSE IF latest_text # <<>> /\ ~is_music_related(latest_text)
        THEN [text |-> RefusalText, kind |-> "refused",
              raised |-> FALSE, classified |-> 1, called |-> 0, sent |-> <<>>]
        ELSE [text |-> IF run.raises THEN QwenError(ExcText) ELSE Join(run.chunks),
              kind |-> IF run.raises THEN "failed" ELSE "answered",
              raised |-> FALSE,
              classified |-> IF latest_text # <<>> THEN 1 ELSE 0,
              called |-> 1,
              sent |-> WithSystemPrompt(messages, QwenSystemPrompt)]

AskQwen(line, run) ==
    /\ tutor = "qwen"
    /\ AskStep(line)
    /\ LET prep == PrepareMessages(conversation_history, Strip(line), single_question_mode)
           resp == QwenChatResponse(prep.messages, run)
           is_reply == ~resp.raised /\ resp.text # <<>> /\ ~StartsWith(resp.text, ErrorPrefix)
       IN  /\ current_messages' = prep.messages
           /\ sent' = resp.sent
           /\ response_content' = IF is_reply THEN resp.text ELSE <<>>
           /\ error_text' = IF resp.kind \in {"failed", "unavailable"} /\ ~resp.raised
                            THEN resp.text ELSE <<>>
           /\ raised' = resp.raised
           /\ op' = IF resp.kind = "answered" /\ resp.text = <<>> THEN "silent"
                    ELSE resp.kind
           /\ conversation_history' =
                  IF is_reply /\ ~single_question_mode
                  THEN Append(prep.history, assistant_turn(resp.text))
                  ELSE prep.history
           /\ classifier_calls' = resp.classified
           /\ api_calls' = resp.called

\* _create_system_prompt: "You are HorizonJam, a helpful music theory tutor ..."
HorizonJamPrompt == <<"Y","o","u"," ","a","r","e"," ","H","o","r","i","z","o","n","J","a","m">>

\* a request that carries the whole history
RecentHistory_Whole(history, limit) == history

\* self.conversation_history[-context_limit*2:] if context_limit > 0 else []
RecentHistory(history, limit) ==
    IF limit > 0 THEN LastN(history, limit * 2) ELSE <<>>

\* generate_response of openai_music_tutor, fully consumed
OpenAIGenerateResponse(history, prompt, run) ==
    IF music_only /\ ~openai_is_music_related(prompt)
    THEN [yields |-> <<HorizonJamRefusal>>, kind |-> "refused", messages |-> <<>>,
          history |-> history, raised |-> FALSE, error |-> <<>>, called |-> 0]
    ELSE LET recent_history == RecentHistory(history, context_limit)
             messages == <<[role |-> "system", content |-> HorizonJamPrompt]>>
                         \o recent_history \o <<user_turn(prompt)>>
         IN  IF run.raises
             THEN [yields |-> run.chunks \o <<OpenAIError(ExcText)>>, kind |-> "failed",
                   messages |-> messages, history |-> history, raised |-> FALSE,
                   error |-> OpenAIError(ExcText), called |-> 1]
             ELSE [yields |-> run.chunks, kind |-> "answered", messages |-> messages,
                   history |-> history \o <<user_turn(prompt),
                                             assistant_turn(Join(run.chunks))>>,
                   raised |-> FALSE, error |-> <<>>, called |-> 1]

AskOpenAI(line, run) ==
    /\ tutor = "openai"
    /\ AskStep(line)
    /\ LET resp == OpenAIGenerateResponse(conversation_history, Strip(line), run)
       IN  /\ current_messages' = resp.messages
           /\ sent' = IF resp.called = 1 THEN resp.messages ELSE <<>>
           /\ response_content' = IF resp.raised THEN <<>> ELSE Join(resp.yields)
           /\ error_text' = resp.error
           /\ raised' = resp.raised
           /\ op' = IF resp.kind = "answered" /\ resp.yields = <<>> THEN "silent"
                    ELSE resp.kind
           /\ conversation_history' = resp.history
           /\ classifier_calls' = IF music_only THEN 1 ELSE 0
           /\ api_calls' = resp.called

\* "\n".join(parts)
RECURSIVE JoinLines(_)
JoinLines(parts) ==
    IF parts = <<>> THEN <<>>
    ELSE IF Len(parts) = 1 THEN Head(parts)
    ELSE Head(parts) \o <<"\n">> \o JoinLines(Tail(parts))

\* the context-aware prompt of music_instructor_inference
ContextualPrompt(history, text) ==
    LET recent == LastN(history, context_limit)
        context_parts == [i \in 1..Len(recent) |->
            IF recent[i].role = "user"
            THEN <<"P","r","e","v","i","o","u","s"," ","q","u","e","s","t","i","o","n",":"," ">> \o recent[i].content
            ELSE <<"P","r","e","v","i","o","u","s"," ","a","n","s","w","e","r",":"," ">> \o recent[i].content]
    IN  <<"P","r","e","v","i","o","u","s"," ","c","o","n","v","e","r","s","a","t","i","o","n",":","\n">> \o JoinLines(context_parts)
            \o <<"\n","\n","C","u","r","r","e","n","t"," ","q","u","e","s","t","i","o","n",":"," ">> \o text

\* generate_response of music_instructor_inference
InstructorGenerateResponse(instruction, run) ==
    IF ~client_ready
    THEN [text |-> <<>>, kind |-> "unavailable", raised |-> TRUE,
          classified |-> 0, called |-> 0]
    ELSE IF ~is_music_related(instruction)
    THEN [text |-> RefusalText, kind |-> "refused", raised |-> FALSE,
          classified |-> 1, called |-> 0]
    ELSE IF run.raises
    THEN [text |-> <<>>, kind |-> "failed", raised |-> TRUE,
          classified |-> 1, called |-> 1]
    ELSE [text |-> Strip(Join(run.chunks)), kind |-> "answered", raised |-> FALSE,
          classified |-> 1, called |-> 1]

\* a loop that stores the exchange in single-question mode as well
InstructorStores_Always(single, failed) == ~failed

\* "Update conversation history (only in conversational mode)"; an
\* exception of generate_response skips the rest of the iteration
InstructorStores(single, failed) == ~single /\ ~failed

AskInstructor(line, run) ==
    /\ tutor = "instructor"
    /\ AskStep(line)
    /\ LET text == Strip(line)
           instruction == IF single_question_mode \/ conversation_history = <<>>
                          THEN text
                          ELSE ContextualPrompt(conversation_history, text)
           resp == InstructorGenerateResponse(instruction, run)
       IN  /\ current_messages' = <<user_turn(instruction)>>
           /\ sent' = IF resp.called = 1 THEN <<user_turn(instruction)>> ELSE <<>>
           /\ response_content' = resp.text
           /\ error_text' = <<>>
           /\ raised' = resp.raised
           /\ op' = IF resp.kind = "answered" /\ resp.text = <<>> THEN "silent"
                    ELSE resp.kind
           /\ conversation_history' =
                  IF InstructorStores(single_question_mode, resp.raised)
                  THEN conversation_history \o
                       <<user_turn(text), assistant_turn(resp.text)>>
                  ELSE conversation_history
           /\ classifier_calls' = resp.classified
           /\ api_calls' = resp.called

Next ==
    \/ \E line \in Lines : Quit(line)
    \/ \E line \in Lines : Clear(line)
    \/ \E line \in Lines : Single(line)
    \/ \E line \in Lines : Context(line)
    \/ \E line \in Lines : Status(line)
    \/ \E line \in Lines : Help(line)
    \/ \E line \in Lines : Blank(line)
    \/ \E line \in Lines, run \in ModelRuns : AskTinyllama(line, run)
    \/ \E line \in Lines, run \in ModelRuns : AskQwen(line, run)
    \/ \E line \in Lines, run \in ModelRuns : AskOpenAI(line, run)
    \/ \E line \in Lines, run \in ModelRuns : AskInstructor(line, run)

Spec == Init /\ [][Next]_vars


(***************************************************************************)
(* Direct calls of the classifier, the enricher and the lookup functions,  *)
(* under every combination of the bypass flag and the domain flags.        *)
(***************************************************************************)
\* what is_music_related evaluates, in the order of the code
Detectors == <<"is_professional_music_term", "is_music_theory_term",
               "is_professional_performance_term", "music_keywords",
               "nashville_patterns", "chord_patterns">>

\* the "if <DOMAIN>_AVAILABLE:" in front of a detector
DetectorGuard(d) ==
    CASE d = "is_professional_music_term"       -> SLAKH_AVAILABLE
      [] d = "is_music_theory_term"             -> THEORY_AVAILABLE
      [] d = "is_professional_performance_term" -> PERFORMANCE_AVAILABLE
      [] OTHER                                  -> TRUE

DetectorHit(d, text) ==
    CASE d = "is_professional_music_term"       -> is_professional_music_term(text)
      [] d = "is_music_theory_term"             -> is_music_theory_term(text)
      [] d = "is_professional_performance_term" -> is_professional_performance_term(text)
      [] d = "music_keywords"     -> \E keyword \in music_keywords :
                                         Contains(Lower(text), keyword)
      [] d = "nashville_patterns" -> \E pattern \in nashville_patterns :
                                         Search(pattern, Lower(text))
      [] d = "chord_patterns"     -> \E pattern \in chord_patterns : Search(pattern, text)

is_music_related_consults_Unguarded(text) ==
    IF ~music_only THEN {}
    ELSE {Detectors[j] : j \in
             {i \in DOMAIN Detectors :
                  \A k \in 1..(i - 1) : ~DetectorHit(Detectors[k], text)}}

\* the detectors is_music_related runs for a text: each one whose guard
\* holds, up to the first that returns True
is_music_related_consults(text) ==
    IF ~music_only THEN {}
    ELSE {Detectors[j] : j \in
             {i \in DOMAIN Detectors :
                  /\ DetectorGuard(Detectors[i])
                  /\ \A k \in 1..(i - 1) :
                         ~(DetectorGuard(Detectors[k]) /\ DetectorHit(Detectors[k], text))}}

\* the names of the knowledge modules enrich_context_with_knowledge uses
enrich_consults(text) ==
    (IF SLAKH_AVAILABLE
     THEN {"SLAKH_INSTRUMENT_CLASSES"}
          \cup (IF MidiAdditions(text) # <<>> THEN {"get_instrument_class"} ELSE {})
          \cup (IF \E i \in DOMAIN SLAKH_INSTRUMENT_CLASSES :
                       Contains(Lower(text), Lower(SLAKH_INSTRUMENT_CLASSES[i].name))
                THEN {"get_instrument_info"} ELSE {})
     ELSE {})
    \cup (IF THEORY_AVAILABLE THEN {"get_theory_explanation"} ELSE {})
    \cup (IF PERFORMANCE_AVAILABLE THEN {"get_performance_concept_info"} ELSE {})

SlakhNames == {"is_professional_music_term", "get_instrument_class",
               "get_instrument_info", "SLAKH_INSTRUMENT_CLASSES"}
TheoryNames == {"is_music_theory_term", "get_theory_explanation"}
PerformanceNames == {"is_professional_performance_term", "get_performance_concept_info"}

\* a name the guarded import of its module bound (a name of the runner
\* itself is always bound)
Imported(name) ==
    /\ name \in SlakhNames => SLAKH_AVAILABLE
    /\ name \in TheoryNames => THEORY_AVAILABLE
    /\ name \in PerformanceNames => PERFORMANCE_AVAILABLE

\* texts handed to the classifier and the enricher
Texts == { <<>>, <<"h","e","l","l","o">>, <<"l","f","o">>, <<"C">>, <<"c">>, <<"F","#","d","i","m">>, <<"f","#","d","i","m">>, <<"g","o"," ","3">>,
           <<"i","i","-","v","-","i">>, <<"k","e","y">>, <<"r","o","o","t">>, <<"1","2","8">>, <<"P","i","a","n","o"," ","1","2">>, <<"W","h","a","t"," ","i","s"," ","M","I","D","I"," ","0","?">> }

\* questions of the lists of test_music_filter.py and test_interactive_mode.py
music_questions == { <<"W","h","a","t"," ","i","s"," ","a"," ","i","i","-","V","-","I"," ","p","r","o","g","r","e","s","s","i","o","n","?">>, <<"H","o","w"," ","d","o"," ","y","o","u"," ","s","t","r","u","m"," ","a"," ","g","u","i","t","a","r","?">>,
                     <<"E","x","p","l","a","i","n"," ","v","o","i","c","e"," ","l","e","a","d","i","n","g">>, <<"W","h","a","t"," ","i","s"," ","t","h","e"," ","d","o","m","i","n","a","n","t"," ","7","t","h"," ","c","h","o","r","d","?">>,
                     <<"W","h","a","t"," ","i","s"," ","C"," ","m","a","j","o","r","?">> }
non_music_questions == { <<"W","h","a","t"," ","i","s"," ","P","y","t","h","o","n"," ","p","r","o","g","r","a","m","m","i","n","g","?">>, <<"H","o","w"," ","d","o"," ","I"," ","c","o","o","k"," ","p","a","s","t","a","?">>,
                         <<"E","x","p","l","a","i","n"," ","p","h","o","t","o","s","y","n","t","h","e","s","i","s">>, <<"H","o","w"," ","d","o"," ","I"," ","l","e","a","r","n"," ","S","p","a","n","i","s","h","?">>,
                         <<"W","h","a","t"," ","i","s"," ","c","a","l","c","u","l","u","s","?">> }

\* prompts handed to the classifier of openai_music_tutor
Prompts == Texts \cup music_questions \cup non_music_questions

\* names handed to the lookup functions
Queries == { <<>>, <<"h","e","l","l","o">>, <<"r","o","o","t">>, <<"R","O","O","T">>, <<"P","i","a","n","o">>, <<"p","i","a","n","o">>, <<"T","u","b","a">>, <<"O","r","g","a","n">>,
             <<"e","a","r">>, <<"p","e","r","f","o","r","m","a","n","c","e","_","a","n","a","l","y","s","i","s">>, <<"P","e","r","f","o","r","m","a","n","c","e","_","A","n","a","l","y","s","i","s">> }

Programs == (0 - 1)..MaxProgram

KnowledgeInit ==
    /\ tutor = "tinyllama"
    /\ music_only \in BOOLEAN
    /\ context_limit = MaxLimit
    /\ client_ready = FALSE
    /\ SLAKH_AVAILABLE \in BOOLEAN
    /\ THEORY_AVAILABLE \in BOOLEAN
    /\ PERFORMANCE_AVAILABLE \in BOOLEAN
    /\ conversation_history = <<>>
    /\ single_question_mode = FALSE
    /\ running = TRUE
    /\ user_input = <<>>
    /\ op = "start"
    /\ current_messages = <<>>
    /\ sent = <<>>
    /\ response_content = <<>>
    /\ error_text = <<>>
    /\ raised = FALSE
    /\ classifier_calls = 0
    /\ api_calls = 0
    /\ called = ""
    /\ argument = <<>>
    /\ returned = <<>>
    /\ consulted = {}
    /\ context_additions = <<>>

\* a call of fn(arg) that uses the names in uses: a name that was not
\* imported raises NameError
KnowledgeCall(fn, arg, uses) ==
    /\ called' = fn
    /\ argument' = arg
    /\ consulted' = uses
    /\ raised' = (\E name \in uses : ~Imported(name))
    /\ UNCHANGED <<config, session>>

CallIsMusicRelated(text) ==
    /\ KnowledgeCall("is_music_related", text, is_music_related_consults(text))
    /\ returned' = (IF raised' THEN None ELSE is_music_related(text))
    /\ context_additions' = <<>>

\* the names is_music_related of openai_music_tutor uses
openai_consults ==
    (IF SLAKH_AVAILABLE
     THEN {"get_enhanced_music_keywords", "is_professional_music_term"} ELSE {})
    \cup {"MUSIC_KEYWORDS", "music_patterns"}

CallOpenAIIsMusicRelated(prompt) ==
    /\ KnowledgeCall("MusicTutor.is_music_related", prompt, openai_consults)
    /\ returned' = (IF raised' THEN None ELSE openai_is_music_related(prompt))
    /\ context_additions' = <<>>

CallEnrich(text) ==
    /\ KnowledgeCall("enrich_context_with_knowledge", text, enrich_consults(text))
    /\ returned' = (IF raised' THEN None ELSE enrich_context_with_knowledge(text))
    /\ context_additions' = ContextAdditions(text)

CallGetInstrumentClass(midi_program) ==
    /\ KnowledgeCall("get_instrument_class", midi_program, {})
    /\ returned' = get_instrument_class(midi_program)
    /\ context_additions' = <<>>

CallGetInstrumentInfo(class_name) ==
    /\ KnowledgeCall("get_instrument_info", class_name, {})
    /\ returned' = get_instrument_info(class_name)
    /\ context_additions' = <<>>

CallGetTheoryExplanation(concept) ==
    /\ KnowledgeCall("get_theory_explanation", concept, {})
    /\ returned' = get_theory_explanation(concept)
    /\ context_additions' = <<>>

CallGetPerformanceConceptInfo(concept) ==
    /\ KnowledgeCall("get_performance_concept_info", concept, {})
    /\ returned' = get_performance_concept_info(concept)
    /\ context_additions' = <<>>

KnowledgeNext ==
    \/ \E text \in Texts : CallIsMusicRelated(text)
    \/ \E prompt \in Prompts : CallOpenAIIsMusicRelated(prompt)
    \/ \E text \in Texts : CallEnrich(text)
    \/ \E midi_program \in Programs : CallGetInstrumentClass(midi_program)
    \/ \E class_name \in Queries : CallGetInstrumentInfo(class_name)
    \/ \E concept \in Queries : CallGetTheoryExplanation(concept)
    \/ \E concept \in Queries : CallGetPerformanceConceptInfo(concept)

KnowledgeSpec == KnowledgeInit /\ [][KnowledgeNext]_vars
(***************************************************************************)
(* Properties of the sessions.                                             *)
(***************************************************************************)
\* the iterations that hand a question to chat_response / generate_response
AskOps == {"refused", "answered", "silent", "failed", "unavailable"}

\* C1: in the tinyllama session in conversational mode with music_only on,
\* an input the classifier rejects leaves conversation_history as it was and
\* calls the chat service not at all.
C1_RejectedLeavesHistory ==
    [][ (tutor = "tinyllama" /\ music_only /\ ~single_question_mode /\ op' = "refused")
        => (conversation_history' = conversation_history /\ api_calls' = 0) ]_vars

\* C2 as stated: in conversational mode of the tinyllama session an accepted
\* input with a non-empty, non-error reply makes the history exactly two
\* turns longer, for every prior length and every context_limit (here: every
\* context_limit >= 1).
C2_AnsweredAddsTwoAlways ==
    [][ (/\ tutor = "tinyllama"
         /\ ~single_question_mode
         /\ context_limit >= 1
         /\ op' = "answered")
        => Len(conversation_history') = Len(conversation_history) + 2 ]_vars

\* C2 amended: when the history before the input holds fewer than
\* context_limit turns, an answered input appends exactly the user turn
\* followed by the assistant turn.
C2_AnsweredAddsTwoBelowLimit ==
    [][ (/\ tutor = "tinyllama"
         /\ ~single_question_mode
         /\ op' = "answered"
         /\ Len(conversation_history) < context_limit)
        => conversation_history' =
               conversation_history \o
               <<user_turn(user_input'), assistant_turn(response_content')>> ]_vars

C2_Witness ==
    /\ tutor = "tinyllama"
    /\ ~single_question_mode
    /\ op = "answered"
    /\ context_limit >= 2
    /\ Len(conversation_history) = 2
    /\ conversation_history[2] = assistant_turn(response_content)

\* C3: in single-question mode the list handed to chat_response holds only
\* the user turn of the input, and conversation_history is not changed,
\* whether the input is accepted, rejected or fails.
C3_SingleModeIsIndependent ==
    [][ (/\ tutor \in {"tinyllama", "qwen"}
         /\ single_question_mode
         /\ op' \in AskOps)
        => (/\ current_messages' = <<user_turn(user_input')>>
            /\ conversation_history' = conversation_history) ]_vars

C3_Witness ==
    /\ tutor \in {"tinyllama", "qwen"}
    /\ single_question_mode
    /\ op = "answered"
    /\ response_content # <<>>
    /\ current_messages = <<user_turn(user_input)>>

\* C4: in the tinyllama, openai and qwen tutors an exception of the model
\* call is caught and the text returned for it starts with "Error:".
C4_ErrorTextHasErrorPrefix ==
    (tutor \in {"tinyllama", "openai", "qwen"} /\ op = "failed")
        => (~raised /\ StartsWith(error_text, ErrorPrefix))

\* C5: in the qwen session in conversational mode, when the model call
\* raises, the error reply is not stored as an assistant turn.
C5_QwenErrorNotStored ==
    (tutor = "qwen" /\ ~single_question_mode /\ op = "failed")
        => \A i \in DOMAIN conversation_history :
               ~(/\ conversation_history[i].role = "assistant"
                 /\ conversation_history[i].content = error_text)

\* C6: in the tinyllama session in conversational mode, when the chat call
\* raises (before the first chunk or in the middle of the stream) the
\* history after the input equals the history before it.
C6_FailedLeavesHistory ==
    [][ (tutor = "tinyllama" /\ ~single_question_mode /\ op' = "failed")
        => conversation_history' = conversation_history ]_vars

\* C7: right after the trim step the history holds at most context_limit
\* turns, for every context_limit >= 0.
C7_TrimmedWithinLimit ==
    (/\ tutor \in {"tinyllama", "qwen"}
     /\ ~single_question_mode
     /\ op \in AskOps
     /\ context_limit >= 0)
        => Len(current_messages) <= context_limit

\* the replies of the model runs that end without an exception
CompleteReplies == {Join(run.chunks) : run \in {r \in ModelRuns : ~r.raises}} \ {<<>>}

\* every question of the history was accepted and fully answered
AllAnswered(history) ==
    \A i \in DOMAIN history :
        /\ history[i].role = "assistant" => history[i].content \in CompleteReplies
        /\ i < Len(history) => history[i].role # history[i + 1].role

\* C8: trimming drops whole user/assistant pairs: after accepted and
\* answered inputs the trimmed history never begins with an assistant turn
\* whose user question was dropped.
C8_TrimKeepsPairs ==
    (/\ tutor = "tinyllama"
     /\ ~single_question_mode
     /\ ~music_only
     /\ op = "answered"
     /\ context_limit >= 1
     /\ AllAnswered(conversation_history))
        => current_messages[1].role # "assistant"

\* C9: the clear command, in any letter case, empties conversation_history,
\* leaves the mode unchanged and dispatches nothing to the classifier or
\* the chat service.
C9_ClearOnlyClears ==
    [][ (tutor # "instructor" /\ Lower(user_input') = <<"c","l","e","a","r">>)
        => (/\ op' = "clear"
            /\ conversation_history' = <<>>
            /\ single_question_mode' = single_question_mode
            /\ classifier_calls' = 0
            /\ api_calls' = 0) ]_vars

C9_Witness ==
    /\ tutor = "tinyllama"
    /\ op = "clear"
    /\ user_input = <<"C","L","E","A","R">>
    /\ conversation_history = <<>>

\* C10: the session has two modes; single sets single-question mode and
\* empties the history, context sets conversational mode and leaves the
\* history unchanged; neither dispatches anything or ends the session, and
\* repeating either command changes nothing.
C10_ModeSwitches ==
    [][ (tutor \in {"tinyllama", "qwen", "instructor"})
        => (/\ single_question_mode' \in BOOLEAN
            /\ (Lower(user_input') = <<"s","i","n","g","l","e">>
                => (/\ op' = "single"
                    /\ single_question_mode' = TRUE
                    /\ conversation_history' = <<>>
                    /\ running' = running
                    /\ classifier_calls' = 0 /\ api_calls' = 0))
            /\ (Lower(user_input') = <<"c","o","n","t","e","x","t">>
                => (/\ op' = "context"
                    /\ single_question_mode' = FALSE
                    /\ conversation_history' = conversation_history
                    /\ running' = running
                    /\ classifier_calls' = 0 /\ api_calls' = 0))
            /\ (op' = op /\ op \in {"single", "context"}
                => (/\ single_question_mode' = single_question_mode
                    /\ conversation_history' = conversation_history))) ]_vars

C10_Witness ==
    /\ tutor \in {"tinyllama", "qwen", "instructor"}
    /\ op = "context"
    /\ ~single_question_mode
    /\ conversation_history # <<>>

(***************************************************************************)
(* Properties of the classifier, the lookups and the enricher.             *)
(***************************************************************************)
\* C11: when music_only is False, is_music_related returns True for every
\* text (the empty string and text without any match included) and uses no
\* keyword set and no regular expression.
C11_BypassAcceptsAll ==
    (called = "is_music_related" /\ ~music_only)
        => (~raised /\ returned = TRUE /\ consulted = {})

C11_Witness ==
    /\ called = "is_music_related"
    /\ ~music_only
    /\ argument = <<>>
    /\ returned = TRUE
    /\ SLAKH_AVAILABLE /\ THEORY_AVAILABLE /\ PERFORMANCE_AVAILABLE

\* C12: with music_only on, is_music_related("") returns False under every
\* combination of available knowledge domains.
C12_EmptyTextRejected ==
    (called = "is_music_related" /\ music_only /\ argument = <<>>)
        => (~raised /\ returned = FALSE)

C12_Witness ==
    /\ called = "is_music_related"
    /\ music_only
    /\ argument = <<>>
    /\ returned = FALSE
    /\ ~SLAKH_AVAILABLE /\ ~THEORY_AVAILABLE /\ ~PERFORMANCE_AVAILABLE

\* C13: for every keyword k of the configured keyword sets and every text
\* whose lower-case form contains the lower-case form of k, is_music_related
\* returns True.
C13_KeywordTextAccepted ==
    (/\ called = "is_music_related"
     /\ music_only
     /\ \E k \in music_keywords : Contains(Lower(argument), Lower(k)))
        => returned = TRUE

\* C14: letter chords are matched on the original text: with no keyword and
\* no Nashville match, an upper-case chord letter ("C", "F#dim") makes
\* is_music_related return True and the lower-case text ("c") False.
C14_UpperChordLetterAccepted ==
    (called = "is_music_related" /\ music_only)
        => (/\ argument \in { <<"C">>, <<"F","#","d","i","m">> } => returned = TRUE
            /\ argument \in { <<"c">>, <<"f","#","d","i","m">> } => returned = FALSE)

\* a keyword of the configured set is a substring of the lowered text
KeywordHit(text) == \E k \in music_keywords : Contains(Lower(text), k)
\* a Nashville-number pattern matches the lowered text
NashvilleHit(text) == \E pattern \in nashville_patterns : Search(pattern, Lower(text))
\* a letter-chord pattern matches the original text
ChordHit(text) == \E pattern \in chord_patterns : Search(pattern, text)

\* a digit 1-7 that stands alone as a word of the text
HasStandaloneDegree(text) ==
    \E i \in DOMAIN text :
        /\ text[i] \in Degrees
        /\ (i = 1 \/ ~IsWordChar(text[i - 1]))
        /\ (i = Len(text) \/ ~IsWordChar(text[i + 1]))

C16_InstrumentClassTotal ==
    /\ DOMAIN MIDI_TO_SLAKH_CLASS = 0..128
    /\ called = "get_instrument_class"
           => (/\ ~raised
               /\ argument \in 0..128
                      => (returned # Unknown
                          /\ returned = MIDI_TO_SLAKH_CLASS[argument])
               /\ argument \notin 0..128 => returned = Unknown)

C16_Witness ==
    /\ called = "get_instrument_class"
    /\ argument = 200
    /\ returned = Unknown

\* the concept names of the table a lookup function reads
ConceptNames(fn) ==
    CASE fn = "get_instrument_info" ->
             {SLAKH_INSTRUMENT_CLASSES[i].name : i \in DOMAIN SLAKH_INSTRUMENT_CLASSES}
      [] fn = "get_theory_explanation" ->
             UNION {Range(MUSICTHEORY_NET_CURRICULUM[i].concepts) :
                        i \in DOMAIN MUSICTHEORY_NET_CURRICULUM}
      [] fn = "get_performance_concept_info" ->
             {PROFESSIONAL_PERFORMANCE_KNOWLEDGE[i].concept :
                  i \in DOMAIN PROFESSIONAL_PERFORMANCE_KNOWLEDGE}

\* C17: in every domain the lookup by name returns a record exactly when the
\* query equals a concept name of the domain ignoring letter case, and
\* absent (None or empty) for every other query.
C17_LookupByExactName ==
    (called \in {"get_instrument_info", "get_theory_explanation",
                 "get_performance_concept_info"})
        => (Truthy(returned)
                <=> \E name \in ConceptNames(called) : Lower(name) = Lower(argument))

\* the snippet of program number n
MidiSnippet(n) ==
    <<"M","I","D","I"," ">> \o Str(n) \o <<" ","m","a","p","s"," ","t","o"," ">>
        \o MIDI_TO_SLAKH_CLASS[n]

\* C18: enrich_context_with_knowledge scans every program number 0..128:
\* the snippet list starts with the snippet of each N in 0..128 whose decimal
\* form is a substring of the text, in ascending order of N.
C18_EveryProgramScanned ==
    (called = "enrich_context_with_knowledge" /\ SLAKH_AVAILABLE)
        => LET expected == Ascending({n \in 0..128 : Contains(argument, Str(n))})
           IN  /\ Len(context_additions) >= Len(expected)
               /\ \A i \in DOMAIN expected :
                      context_additions[i] = MidiSnippet(expected[i])

\* C19: enrich_context_with_knowledge returns the text unchanged when no
\* snippet was found ("hello"); otherwise the text, one "Relevant context:"
\* label and the first three snippets in scan order; for "What is MIDI 0?"
\* the result contains "MIDI 0 maps to Piano".
C19_EnrichAppendsFirstThree ==
    (called = "enrich_context_with_knowledge")
        => (/\ context_additions = <<>> => returned = argument
            /\ context_additions # <<>>
                   => returned = argument
                          \o <<"\n","\n","R","e","l","e","v","a","n","t"," ",
                               "c","o","n","t","e","x","t",":"," ">>
                          \o JoinBar(SubSeq(context_additions, 1,
                                            IF Len(context_additions) < 3
                                            THEN Len(context_additions) ELSE 3))
            /\ argument = <<"h","e","l","l","o">> => returned = argument
            /\ (SLAKH_AVAILABLE
                /\ argument = <<"W","h","a","t"," ","i","s"," ","M","I","D","I"," ","0","?">>)
                   => Contains(returned, MidiSnippet(0))
            /\ MidiSnippet(0) = <<"M","I","D","I"," ","0"," ","m","a","p","s"," ",
                                  "t","o"," ","P","i","a","n","o">>)

C19_Witness ==
    /\ called = "enrich_context_with_knowledge"
    /\ SLAKH_AVAILABLE
    /\ argument = <<"P","i","a","n","o"," ","1","2">>
    /\ Len(context_additions) = 4
    /\ ~Contains(returned, context_additions[4])

\* C20: for every subset of the knowledge domains being unavailable the
\* keyword set is non-empty (the fallback set when all three are absent), and
\* is_music_related and enrich_context_with_knowledge return without raising
\* and without using a name of an absent domain.
C20_DegradesGracefully ==
    /\ music_keywords # {}
    /\ (~SLAKH_AVAILABLE /\ ~THEORY_AVAILABLE /\ ~PERFORMANCE_AVAILABLE)
           => music_keywords = FallbackKeywords
    /\ called \in {"is_music_related", "enrich_context_with_knowledge"}
           => (/\ ~raised
               /\ "is_professional_music_term" \in consulted => SLAKH_AVAILABLE
               /\ "get_instrument_class" \in consulted => SLAKH_AVAILABLE
               /\ "get_instrument_info" \in consulted => SLAKH_AVAILABLE
               /\ "SLAKH_INSTRUMENT_CLASSES" \in consulted => SLAKH_AVAILABLE
               /\ "is_music_theory_term" \in consulted => THEORY_AVAILABLE
               /\ "get_theory_explanation" \in consulted => THEORY_AVAILABLE
               /\ "is_professional_performance_term" \in consulted
                      => PERFORMANCE_AVAILABLE
               /\ "get_performance_concept_info" \in consulted
                      => PERFORMANCE_AVAILABLE)

C20_Witness ==
    /\ called = "is_music_related"
    /\ music_only
    /\ ~SLAKH_AVAILABLE /\ THEORY_AVAILABLE /\ ~PERFORMANCE_AVAILABLE
    /\ argument = <<"l","f","o">>
    /\ consulted = {"is_music_theory_term", "music_keywords",
                    "nashville_patterns", "chord_patterns"}
    /\ ~raised

(***************************************************************************)
(* Properties of the commands, the dispatched message lists, the           *)
(* classifier copies and the Slakh tables.                                 *)
(***************************************************************************)
CommandWords == { <<"q","u","i","t">>, <<"e","x","i","t">>, <<"b","y","e">>, <<"c","l","e","a","r">>, <<"s","i","n","g","l","e">>, <<"c","o","n","t","e","x","t">>,
                  <<"s","t","a","t","u","s">>, <<"h","e","l","p">> }
QuitWords == { <<"q","u","i","t">>, <<"e","x","i","t">>, <<"b","y","e">> }

\* C21: in the sessions of tinyllama_runner and music_instructor_inference
\* an input that is, in any letter case, one of quit, exit, bye, clear,
\* single, context, status, help is handled as a command: the iteration
\* calls neither the classifier nor the model and sends nothing; quit, exit
\* and bye end the session, and no input is processed after the end.
C21_CommandWordsAreCommands ==
    [][(tutor \in {"tinyllama", "instructor"})
        => (running
            /\ (Lower(user_input') \in CommandWords
                  => (classifier_calls' = 0 /\ api_calls' = 0 /\ sent' = <<>>))
            /\ (Lower(user_input') \in QuitWords => ~running'))]_vars

\* C22: is_music_related of openai_music_tutor returns True for every
\* question of the tests' music list and False for every question of the
\* tests' non-music list.
C22_TestListsSeparated ==
    (called = "MusicTutor.is_music_related" /\ ~raised)
        => /\ argument \in music_questions => returned = TRUE
           /\ argument \in non_music_questions => returned = FALSE

\* C23: for every text, the same bypass setting and the same domain
\* availability, the classifier of tinyllama_runner (the copy of
\* qwen_music_tutor and music_instructor_inference) and the classifier of
\* openai_music_tutor, whose bypass is applied by generate_response, take
\* the same accept/reject decision.
C23_CopiesAgree ==
    (called = "is_music_related" /\ ~raised)
        => returned = (~music_only \/ openai_is_music_related(argument))

\* the list the loop handed to chat_response without its last message
Earlier(messages) == SubSeq(messages, 1, Len(messages) - 1)

\* C24: with a positive context limit, every message list the tinyllama
\* session sends to the chat service holds exactly one system message, at
\* index 0, and ends with the user turn of the current input (as typed or
\* enriched); in conversational mode the messages between them are the
\* trimmed history in its original order.
C24_SentListShape ==
    (tutor = "tinyllama" /\ context_limit >= 1 /\ sent # <<>>)
        => /\ IsSystem(sent[1])
           /\ \A i \in 2..Len(sent) : ~IsSystem(sent[i])
           /\ IsUser(sent[Len(sent)])
           /\ sent[Len(sent)].content \in
                  {user_input, enrich_context_with_knowledge(user_input)}
           /\ ~single_question_mode
                  => /\ Len(sent) = Len(current_messages) + 1
                     /\ SubSeq(sent, 2, Len(sent) - 1) = Earlier(current_messages)

\* the texts a user can type, stripped as the loop strips them
TypedTexts == {Strip(line) : line \in Lines}

\* C25: every user turn stored in conversation_history of the tinyllama
\* session holds exactly a text the user typed, never the text with the
\* appended "Relevant context:" block.
C25_HistoryHoldsTypedText ==
    tutor = "tinyllama"
        => \A i \in 1..Len(conversation_history) :
              IsUser(conversation_history[i])
                  => /\ conversation_history[i].content \in TypedTexts
                     /\ ~Contains(conversation_history[i].content, <<"R","e","l","e","v","a","n","t"," ","c","o","n","t","e","x","t",":">>)

\* an enriched question was sent and answered, and the history holds the
\* question as it was typed
C25_Witness ==
    /\ tutor = "tinyllama"
    /\ ~single_question_mode
    /\ op = "answered"
    /\ Contains(sent[Len(sent)].content, <<"R","e","l","e","v","a","n","t"," ","c","o","n","t","e","x","t",":">>)
    /\ Len(conversation_history) = 2
    /\ conversation_history[1] = user_turn(user_input)

\* C26: in the sessions of tinyllama_runner, qwen_music_tutor and
\* music_instructor_inference, whenever the session is in single-question
\* mode, conversation_history is empty.
C26_SingleModeHasNoHistory ==
    (tutor \in {"tinyllama", "qwen", "instructor"} /\ single_question_mode)
        => conversation_history = <<>>

\* a question was answered in single-question mode
C26_Witness ==
    /\ tutor \in {"tinyllama", "qwen", "instructor"}
    /\ single_question_mode
    /\ op = "answered"
    /\ response_content # <<>>
    /\ conversation_history = <<>>

\* C27: when enrichment adds context and the list handed to chat_response
\* holds an earlier user turn with the text of the latest one, the message
\* sent in enriched form is the last user message, and every earlier
\* message is sent unchanged.
C27_LastUserMessageEnriched ==
    (/\ tutor = "tinyllama"
     /\ sent # <<>>
     /\ current_messages # <<>>
     /\ enrich_context_with_knowledge(user_input) # user_input
     /\ \E i \in 1..(Len(current_messages) - 1) :
            current_messages[i] = user_turn(user_input))
        => /\ sent[Len(sent)] = user_turn(enrich_context_with_knowledge(user_input))
           /\ SubSeq(sent, 2, Len(sent) - 1) = Earlier(current_messages)

\* C28: in the session of music_instructor_inference with music_only on and
\* the model loaded, a question the classifier rejects when it is asked
\* alone is refused whatever the earlier turns were, and the refused
\* question is not stored in conversation_history.
C28_AdmissionByQuestionAlone ==
    [][(/\ tutor = "instructor"
        /\ music_only
        /\ client_ready
        /\ op' \in AskOps
        /\ ~is_music_related(user_input'))
          => (op' = "refused" /\ conversation_history' = conversation_history)]_vars

\* C29: the two Slakh tables agree: for every program p in 0..128 the class
\* get_instrument_class(p) is a key of SLAKH_INSTRUMENT_CLASSES, so that
\* get_instrument_info of it is non-empty, and p is listed in its
\* midi_programs; and every program listed under a class maps back to
\* that class.
C29_SlakhTablesAgree ==
    /\ (called = "get_instrument_class" /\ argument \in 0..128)
          => LET info == get_instrument_info(returned)
             IN  /\ Truthy(info)
                 /\ argument \in Range(info.midi_programs)
    /\ (called = "get_instrument_info" /\ Truthy(returned))
          => \A p \in Range(returned.midi_programs) : get_instrument_class(p) = argument

\* C30: generate_response of openai_music_tutor, fully consumed, appends
\* exactly the user prompt and the complete assistant text to
\* conversation_history when the call and the stream finished without an
\* exception, leaves conversation_history unchanged on a refusal and on
\* an exception, also one raised in the middle of the stream, and sends
\* at most 2 * context_limit stored messages, the latest ones, and none
\* when context_limit <= 0.
C30_OpenAIHistoryDiscipline ==
    [][(tutor = "openai" /\ op' \in AskOps)
          => (/\ op' \in {"answered", "silent"}
                    => conversation_history' = conversation_history \o
                           <<user_turn(user_input'), assistant_turn(response_content')>>
              /\ op' \in {"refused", "failed"}
                    => conversation_history' = conversation_history
              /\ sent' # <<>>
                    => LET stored == SubSeq(sent', 2, Len(sent') - 1)
                       IN  /\ Len(stored) <= (IF context_limit > 0
                                              THEN 2 * context_limit ELSE 0)
                           /\ stored = SubSeq(conversation_history,
                                             Len(conversation_history) - Len(stored) + 1,
                                             Len(conversation_history)))]_vars

\* an answered request that carried the last two of more stored messages
C30_Witness ==
    /\ tutor = "openai"
    /\ op = "answered"
    /\ context_limit = 1
    /\ Len(sent) = 4
    /\ Len(conversation_history) > 4
    /\ conversation_history[Len(conversation_history)] = assistant_turn(response_content)
    /\ conversation_history[Len(conversation_history) - 1] = user_turn(user_input)

====
